---- MODULE Spec2Model ----
(***************************************************************************)
(* A model of PyCG's points-to engine: the definition store                *)
(* (pycg/machinery/definitions.py), name pointers                          *)
(* (pycg/machinery/pointers.py), the class table's MRO lists               *)
(* (pycg/machinery/classes.py), the call graph                             *)
(* (pycg/machinery/callgraph.py) and the passes that drive them.           *)
(*                                                                         *)
(* A namespace is the sequence of its dot-separated segments, so that      *)
(* join_ns is concatenation: "a.f.<return>" is <<"a", "f", "<return>">>.   *)
(***************************************************************************)
EXTENDS Integers, Sequences, FiniteSets, TLC

VARIABLES
    defs,         \* DefinitionManager.defs: namespace -> Definition
    order,        \* insertion order of the keys of DefinitionManager.defs
    err,          \* the exception the last store operation raised, or "none"
    last,         \* what the last operation was and what it returned
    closured,     \* the mapping the last transitive_closure() returned
    pc,           \* position of the driver in the run that is being modelled
    mro,          \* ClassNode.mro of every class of the class table
    exited,       \* TRUE once add_parent has taken its sys.exit(123) branch
    cg,           \* CallGraph.cg: node -> set of callees
    cg_extended,  \* CallGraph.cg_extended: node -> [dsts, modname]
    modnames,     \* CallGraph.modnames: node -> declaring module
    rank,         \* the order in which this run iterates a set of namespaces
    snap,         \* the store [defs, order] the solver was started on
    prog,         \* the module under analysis: the names its bodies call
    scopes,       \* ScopeManager.scopes: namespace -> [parent, defs]
    todo,         \* the AST nodes the emitter has still to visit
    im,           \* ImportManager: import_graph, current_module, input_file, old_*
    sys,          \* the host's sys.path_hooks, sys.path and import caches
    run,          \* a pass over the modules: the visitors on the Python stack
    mm,           \* ModuleManager: the internal and the external module records
    raises        \* cg_extended[node]['meta']['raises'], for the nodes that have it

vars == <<defs, order, err, last, closured, pc, mro, exited, cg, cg_extended, modnames,
          rank, snap, prog, scopes, todo, im, sys, run, mm, raises>>

storeVars == <<defs, order, err, last, closured, pc>>
mroVars == <<mro, exited>>
cgVars == <<cg, cg_extended, modnames>>
astVars == <<prog, scopes, todo>>
impVars == <<im, sys, run>>
modVars == <<mm, raises>>
runVars == <<rank, snap, astVars, impVars, modVars>>

(***************************************************************************)
(* utils: constants and join_ns                                            *)
(***************************************************************************)
FUN_DEF == "FUN"
MOD_DEF == "MOD"
NAME_DEF == "NAME"
CLS_DEF == "CLS"
EXT_DEF == "EXT"
RETURN_NAME == "<return>"

\* Definition.types
DefinitionTypes == {FUN_DEF, MOD_DEF, NAME_DEF, CLS_DEF, EXT_DEF}

\* utils.join_ns(ns, name): ".".join of the segments
join_ns(ns, name) == Append(ns, name)

\* an empty dict
EmptyMap == [k \in {} |-> {}]

\* dict with d[k] = v set (the key keeps its place when it is already there)
Put(d, k, v) == [x \in DOMAIN d \cup {k} |-> IF x = k THEN v ELSE d[x]]

\* list.append for a key that enters a dict: an existing key keeps its position
Touch(ord, k) == IF \E i \in 1..Len(ord) : ord[i] = k THEN ord ELSE Append(ord, k)

(***************************************************************************)
(* pointers.py                                                             *)
(***************************************************************************)
\* NamePointer.__init__
NewNamePointer ==
    [values |-> {}, pos_to_name |-> EmptyMap, name_to_pos |-> EmptyMap, args |-> EmptyMap,
     arg_order |-> <<>>]

\* Pointer.add on a name pointer
PointerAdd(np, item) == [np EXCEPT !.values = @ \cup {item}]

\* NamePointer.get_or_create followed by NamePointer.add_arg with a set item
\* (a single namespace is passed as a one-element set)
AddArg(np, name, items) ==
    LET old == IF name \in DOMAIN np.args THEN np.args[name] ELSE {}
    IN [np EXCEPT !.args = Put(np.args, name, old \cup items),
                  !.arg_order = Touch(np.arg_order, name)]

\* str(pos) for the positions the model uses
StrOfPos(pos) == ToString(pos)

\* NamePointer.add_pos_arg(pos, name, item); name = "" stands for None
AddPosArg(np, pos, name, items) ==
    LET nm == IF name # "" THEN name
              ELSE IF pos \in DOMAIN np.pos_to_name THEN np.pos_to_name[pos]
              ELSE StrOfPos(pos)
        np1 == [np EXCEPT !.pos_to_name = Put(np.pos_to_name, pos, nm),
                          !.name_to_pos = Put(np.name_to_pos, nm, pos)]
    IN AddArg(np1, nm, items)

\* NamePointer.get_pos_arg(pos): the argument set, or {} for None
GetPosArg(np, pos) ==
    IF pos \in DOMAIN np.pos_to_name /\ np.pos_to_name[pos] \in DOMAIN np.args
    THEN np.args[np.pos_to_name[pos]] ELSE {}

\* NamePointer.get_arg(name): the argument set, or {} for None
GetArg(np, name) == IF name \in DOMAIN np.args THEN np.args[name] ELSE {}

\* NamePointer.merge(pointer): values, pos_to_name and args of the other pointer
\* are merged in; name_to_pos is left alone
RECURSIVE MergeArgs(_, _, _)
MergeArgs(np, other, keys) ==
    IF keys = <<>> THEN np
    ELSE MergeArgs(AddArg(np, Head(keys), other.args[Head(keys)]), other, Tail(keys))

NamePointerMerge(np, other) ==
    LET np1 == [np EXCEPT !.values = @ \cup other.values,
                          !.pos_to_name = [p \in DOMAIN np.pos_to_name
                                                 \cup DOMAIN other.pos_to_name |->
                                IF p \in DOMAIN other.pos_to_name
                                THEN other.pos_to_name[p] ELSE np.pos_to_name[p]]]
    IN MergeArgs(np1, other, other.arg_order)

(***************************************************************************)
(* definitions.py: Definition                                              *)
(***************************************************************************)
\* Definition.__init__(fullns, def_type); the slot decorator_names is not set
\* (has_decorator_names = FALSE) until handle_function_def sets it to set()
NewDefinition(ns, def_type) ==
    [fullns |-> ns, def_type |-> def_type, name_pointer |-> NewNamePointer,
     literal_pointer |-> {}, has_decorator_names |-> FALSE, decorator_names |-> {}]

\* Definition.merge(to_merge)
DefinitionMerge(d, src) ==
    [d EXCEPT !.name_pointer = NamePointerMerge(d.name_pointer, src.name_pointer),
              !.literal_pointer = @ \cup src.literal_pointer]

\* LiteralPointer.add(item): strings and ints are stored verbatim, anything else
\* as UNK_LIT. A literal is <<kind, text>> so that "7" and 7 stay distinct.
UNK_LIT == <<"str", "UNKNOWN">>
LiteralAdd(lp, item) == IF item[1] \in {"str", "int"} THEN lp \cup {item} ELSE lp \cup {UNK_LIT}

\* Definition.is_function_def
is_function_def(d) == d.def_type = FUN_DEF

(***************************************************************************)
(* definitions.py: DefinitionManager                                       *)
(*                                                                         *)
(* Every operation is a function of the store [defs, order] to the store   *)
(* it leaves, with the exception it raised (err) and the namespace of the  *)
(* definition it returned (ret, <<>> when it raised).                      *)
(***************************************************************************)
NoErr == "none"
DefinitionError == "DefinitionError"

Result(D, O, e, r) == [defs |-> D, order |-> O, err |-> e, ret |-> r]

\* a get that finds every namespace
Has_always(D, ns) == TRUE

\* DefinitionManager.get(ns) is not None
Has(D, ns) == ns \in DOMAIN D

\* create without its "Definition already exists" check
ManagerCreate_overwrite(D, O, isStr, ns, def_type) ==
    IF ~isStr \/ ns = <<>> THEN Result(D, O, DefinitionError, <<>>)
    ELSE IF def_type \notin DefinitionTypes THEN Result(D, O, DefinitionError, <<>>)
    ELSE Result(Put(D, ns, NewDefinition(ns, def_type)), Touch(O, ns), NoErr, ns)

\* DefinitionManager.create(ns, def_type); isStr = FALSE stands for an argument
\* that is not a string
ManagerCreate(D, O, isStr, ns, def_type) ==
    IF ~isStr \/ ns = <<>> THEN Result(D, O, DefinitionError, <<>>)
    ELSE IF def_type \notin DefinitionTypes THEN Result(D, O, DefinitionError, <<>>)
    ELSE IF ns \in DOMAIN D THEN Result(D, O, DefinitionError, <<>>)
    ELSE Result(Put(D, ns, NewDefinition(ns, def_type)), Append(O, ns), NoErr, ns)

\* DefinitionManager.assign(ns, defi)
ManagerAssign(D, O, ns, defi) ==
    LET D1 == Put(D, ns, DefinitionMerge(NewDefinition(ns, defi.def_type), defi))
        O1 == Touch(O, ns)
        return_ns == join_ns(ns, RETURN_NAME)
        ret_def == [NewDefinition(return_ns, NAME_DEF) EXCEPT
                       !.name_pointer = PointerAdd(@, join_ns(defi.fullns, RETURN_NAME))]
    IN IF is_function_def(defi)
       THEN Result(Put(D1, return_ns, ret_def), Touch(O1, return_ns), NoErr, ns)
       ELSE Result(D1, O1, NoErr, ns)

\* DefinitionManager.handle_function_def(parent_ns, fn_name)
ManagerHandleFunctionDef(D, O, parent_ns, fn_name) ==
    LET full_ns == join_ns(parent_ns, fn_name)
        r1 == IF Has(D, full_ns) THEN Result(D, O, NoErr, full_ns)
              ELSE LET c == ManagerCreate(D, O, TRUE, full_ns, FUN_DEF)
                   IN [c EXCEPT !.defs = [@ EXCEPT ![full_ns].has_decorator_names = TRUE,
                                                   ![full_ns].decorator_names = {}]]
        return_ns == join_ns(full_ns, RETURN_NAME)
        r2 == IF Has(r1.defs, return_ns) THEN r1
              ELSE ManagerCreate(r1.defs, r1.order, TRUE, return_ns, NAME_DEF)
    IN Result(r2.defs, r2.order, r2.err, full_ns)

\* DefinitionManager.handle_class_def(parent_ns, cls_name)
ManagerHandleClassDef(D, O, parent_ns, cls_name) ==
    LET full_ns == join_ns(parent_ns, cls_name)
    IN IF Has(D, full_ns) THEN Result(D, O, NoErr, full_ns)
       ELSE ManagerCreate(D, O, TRUE, full_ns, CLS_DEF)

(***************************************************************************)
(* preprocessor.py: the part of PreProcessor.visit_Module that fills the   *)
(* store. functions and classes are the lists ScopeManager.handle_module   *)
(* returns; visited are the function definitions the traversal reaches     *)
(* (visit_FunctionDef -> _handle_function_def -> handle_function_def).     *)
(***************************************************************************)
RECURSIVE iterate_mod_items(_, _, _, _)
iterate_mod_items(D, O, items, const) ==
    IF items = <<>> THEN Result(D, O, NoErr, <<>>)
    ELSE LET item == Head(items)
             r == IF Has(D, item) THEN Result(D, O, NoErr, item)
                  ELSE ManagerCreate(D, O, TRUE, item, const)
         IN iterate_mod_items(r.defs, r.order, Tail(items), const)

RECURSIVE VisitFunctionDefs(_, _, _)
VisitFunctionDefs(D, O, visited) ==
    IF visited = <<>> THEN Result(D, O, NoErr, <<>>)
    ELSE LET f == Head(visited)
             r == ManagerHandleFunctionDef(D, O, SubSeq(f, 1, Len(f) - 1), f[Len(f)])
         IN VisitFunctionDefs(r.defs, r.order, Tail(visited))

PreProcessorVisitModule(D, O, modname, functions, classes, visited) ==
    LET r0 == IF Has(D, modname) THEN Result(D, O, NoErr, modname)
              ELSE ManagerCreate(D, O, TRUE, modname, MOD_DEF)
        r1 == iterate_mod_items(r0.defs, r0.order, functions, FUN_DEF)
        r2 == iterate_mod_items(r1.defs, r1.order, classes, CLS_DEF)
    IN VisitFunctionDefs(r2.defs, r2.order, visited)

(***************************************************************************)
(* Spec: the definition store under its operations                         *)
(***************************************************************************)
MaxDefs == 3      \* definitions in the store
MaxPtr == 1       \* elements of all points-to sets of the store together

ModA == <<"a">>
NsPool == {ModA, <<"a", "f">>}
FnNames == {"f"}
\* arguments given to create: a namespace, the empty string, or no string at all
CreateArgs == {[isStr |-> TRUE, ns |-> n] : n \in NsPool \cup {<<>>}}
                  \cup {[isStr |-> FALSE, ns |-> <<>>]}
CreateTypes == {FUN_DEF, NAME_DEF, CLS_DEF, "NOTYPE"}
Literals == {<<"str", "k">>, <<"float", "1.5">>}

NoRank == <<>>
NoSnap == [defs |-> EmptyMap, order |-> <<>>]
NoProg == [mod |-> <<>>, f |-> <<>>, g |-> <<>>]
\* ImportManager.__init__, and the host's import state before any hook
NoPath == [abs |-> TRUE, path |-> <<>>]
NewImportManager ==
    [import_graph |-> EmptyMap, current_module |-> <<>>, input_file |-> NoPath,
     mod_dir |-> NoPath, old_path_hooks |-> <<"None">>, old_path |-> <<"None">>]
HostPath == [abs |-> TRUE, path |-> <<"usr", "lib">>]
HostSys == [path_hooks |-> <<"zipimporter", "FileFinder">>, path |-> <<HostPath>>,
            path_importer_cache |-> {HostPath}, modules |-> {}]
NoRun == [pass |-> "idle", status |-> "idle", stack |-> <<>>, heap |-> <<>>,
          src |-> EmptyMap, visited |-> EmptyMap, analyzed |-> {},
          ev |-> [kind |-> "none"], built |-> <<>>]
InitImp == im = NewImportManager /\ sys = HostSys /\ run = NoRun
\* ModuleManager.__init__, and a call graph without a 'raises' entry
NewModuleManager == [internal |-> EmptyMap, external |-> EmptyMap]
InitMods == mm = NewModuleManager /\ raises = EmptyMap
InitAst == prog = NoProg /\ scopes = EmptyMap /\ todo = <<>>
InitRun == rank = NoRank /\ snap = NoSnap /\ InitAst /\ InitImp /\ InitMods
InitMro == mro = EmptyMap /\ exited = FALSE
InitCg == cg = EmptyMap /\ cg_extended = EmptyMap /\ modnames = EmptyMap

Init ==
    /\ defs = EmptyMap /\ order = <<>> /\ err = NoErr
    /\ last = [op |-> "init", ret |-> <<>>]
    /\ closured = EmptyMap /\ pc = "store"
    /\ InitMro /\ InitCg /\ InitRun

\* the number of elements the points-to sets of the store hold
RECURSIVE PtrCount(_, _)
PtrCount(D, keys) ==
    IF keys = {} THEN 0
    ELSE LET k == CHOOSE k \in keys : TRUE
         IN Cardinality(D[k].name_pointer.values) + Cardinality(D[k].literal_pointer)
                + PtrCount(D, keys \ {k})

\* the store an operation leaves, when it fits the model's bounds
Commit(r, op) ==
    /\ Len(r.order) <= MaxDefs
    /\ defs' = r.defs /\ order' = r.order /\ err' = r.err
    /\ last' = [op |-> op, ret |-> r.ret]
    /\ UNCHANGED <<closured, pc, mroVars, cgVars, runVars>>

Create(a, t) == Commit(ManagerCreate(defs, order, a.isStr, a.ns, t), "create")

Assign(ns, src) == Commit(ManagerAssign(defs, order, ns, defs[src]), "assign")

HandleFunctionDef(parent, name) ==
    Commit(ManagerHandleFunctionDef(defs, order, parent, name), "handle_function_def")

HandleClassDef(parent, name) ==
    Commit(ManagerHandleClassDef(defs, order, parent, name), "handle_class_def")

VisitModule(functions, visited) ==
    Commit(PreProcessorVisitModule(defs, order, ModA, functions, <<>>, visited), "visit_Module")

\* ProcessingBase._handle_assign: defi.get_name_pointer().add(d.get_ns())
NameAdd(ns, target) ==
    /\ PtrCount(defs, DOMAIN defs) < MaxPtr
    /\ Commit(Result([defs EXCEPT ![ns].name_pointer = PointerAdd(@, target)],
                     order, NoErr, ns), "name_pointer.add")

\* ProcessingBase._handle_assign: defi.get_lit_pointer().add(d)
LitAdd(ns, lit) ==
    /\ PtrCount(defs, DOMAIN defs) < MaxPtr
    /\ Commit(Result([defs EXCEPT ![ns].literal_pointer = LiteralAdd(@, lit)],
                     order, NoErr, ns), "literal_pointer.add")

\* the lists of functions a module's scope tree can hold, and what is visited of them
FunctionLists == {<<>>, << <<"a", "f">> >>}

Next ==
    \/ \E a \in CreateArgs, t \in CreateTypes : Create(a, t)
    \/ \E ns \in NsPool, src \in DOMAIN defs : Assign(ns, src)
    \/ \E name \in FnNames : HandleFunctionDef(ModA, name)
    \/ \E name \in FnNames : HandleClassDef(ModA, name)
    \/ \E fs \in FunctionLists, vs \in FunctionLists :
           (vs = <<>> \/ vs = fs) /\ VisitModule(fs, vs)
    \/ \E ns \in DOMAIN defs, target \in NsPool : NameAdd(ns, target)
    \/ \E ns \in DOMAIN defs, lit \in Literals : LitAdd(ns, lit)

Spec == Init /\ [][Next]_vars

(***************************************************************************)
(* classes.py: ClassNode                                                   *)
(***************************************************************************)
\* list.count(item) > 0 on the slice l[from:]
OccursFrom(l, from, item) == \E j \in from..Len(l) : l[j] = item

\* list.reverse
Reverse(l) == [i \in 1..Len(l) |-> l[Len(l) + 1 - i]]

\* ClassNode.fix_mro: an item is kept when it does not occur again later
RECURSIVE fix_mro_from(_, _, _)
fix_mro_from(l, idx, new_mro) ==
    IF idx > Len(l) THEN new_mro
    ELSE IF OccursFrom(l, idx + 1, l[idx]) THEN fix_mro_from(l, idx + 1, new_mro)
    ELSE fix_mro_from(l, idx + 1, Append(new_mro, l[idx]))

\* add_parent without its closing fix_mro
fix_mro_skipped(l) == l

fix_mro(l) == fix_mro_from(l, 1, <<>>)

\* ClassNode.compute_mro: reverse, keep the first occurrence of each, reverse back
RECURSIVE compute_mro_from(_, _, _)
compute_mro_from(rev, idx, res) ==
    IF idx > Len(rev) THEN res
    ELSE IF OccursFrom(res, 1, rev[idx]) THEN compute_mro_from(rev, idx + 1, res)
    ELSE compute_mro_from(rev, idx + 1, Append(res, rev[idx]))

\* compute_mro without its two reversals: the first occurrence of each is kept
compute_mro_unreversed(l) == compute_mro_from(l, 1, <<>>)

compute_mro(l) == Reverse(compute_mro_from(Reverse(l), 1, <<>>))

\* ClassNode.clear_mro
clear_mro(ns) == <<ns>>

\* ClassNode.add_parent(parent) for a string parent
add_parent_str(l, parent) == fix_mro(Append(l, parent))

\* the loop of ClassNode.add_parent over a list parent, from item idx on:
\* [mro, exit], exit being TRUE when sys.exit(123) was reached
RECURSIVE add_parent_loop(_, _, _)
add_parent_loop(l, parent, idx) ==
    IF idx > Len(parent) THEN [mro |-> l, exit |-> FALSE]
    ELSE IF l = parent THEN [mro |-> l, exit |-> TRUE]
    ELSE add_parent_loop(Append(l, parent[idx]), parent, idx + 1)

\* add_parent for a list parent without its 'self.mro != parent' test
add_parent_list_unguarded(l, parent) ==
    LET r == add_parent_loop(l, parent, 1)
    IN IF r.exit THEN r ELSE [mro |-> fix_mro(r.mro), exit |-> FALSE]

\* ClassNode.add_parent(parent) for a list parent
add_parent_list(l, parent) ==
    IF l # parent
    THEN LET r == add_parent_loop(l, parent, 1)
         IN IF r.exit THEN r ELSE [mro |-> fix_mro(r.mro), exit |-> FALSE]
    ELSE [mro |-> fix_mro(l), exit |-> FALSE]

(***************************************************************************)
(* postprocessor.py: PostProcessor.visit_ClassDef, the part that rebuilds  *)
(* the MRO of class c from the namespaces its bases resolve to. M is the   *)
(* class table (namespace -> mro); the result is [mro, exit] for c.        *)
(***************************************************************************)
RECURSIVE visit_bases(_, _, _, _)
visit_bases(M, c, l, names) ==
    IF names = <<>> THEN [mro |-> l, exit |-> FALSE]
    ELSE LET name == Head(names)
             l1 == add_parent_str(l, name)
             \* the parent's list is the class's own list when name = c
             parent_cls_mro == IF name = c THEN l1 ELSE M[name]
         IN IF name \in DOMAIN M /\ parent_cls_mro # l1
            THEN LET r == add_parent_list(l1, parent_cls_mro)
                 IN IF r.exit THEN r ELSE visit_bases(M, c, r.mro, Tail(names))
            ELSE visit_bases(M, c, l1, Tail(names))

PostProcessorVisitClassDef(M, c, names) ==
    LET r == visit_bases(M, c, clear_mro(c), names)
    IN IF r.exit THEN r ELSE [mro |-> compute_mro(r.mro), exit |-> FALSE]

(***************************************************************************)
(* SpecMro: the class table under the MRO operations                       *)
(***************************************************************************)
MaxParentLen == 2    \* length of a list handed to add_parent, and of a base list

ClsA == <<"a", "A">>
ClsB == <<"a", "B">>
Classes == {ClsA, ClsB}
\* what a base can resolve to: a class of the table or a name outside it
ParentNames == Classes \cup {<<"ext", "X">>}

RECURSIVE SeqsUpTo(_, _)
SeqsUpTo(S, n) ==
    IF n = 0 THEN {<<>>}
    ELSE LET shorter == SeqsUpTo(S, n - 1)
         IN shorter \cup {Append(q, x) : q \in shorter, x \in S}

ParentLists == SeqsUpTo(ParentNames, MaxParentLen)

InitStoreIdle ==
    /\ defs = EmptyMap /\ order = <<>> /\ err = NoErr
    /\ last = [op |-> "init", ret |-> <<>>]
    /\ closured = EmptyMap

InitMroSpec ==
    /\ InitStoreIdle /\ pc = "mro" /\ InitCg /\ InitRun
    /\ mro = [c \in Classes |-> <<c>>]
    /\ exited = FALSE

MroStep(c, r, op) ==
    /\ ~exited
    /\ mro' = [mro EXCEPT ![c] = r.mro]
    /\ exited' = r.exit
    /\ last' = [op |-> op, ret |-> c]
    /\ UNCHANGED <<defs, order, err, closured, pc, cgVars, runVars>>

AddParentStr(c, p) == MroStep(c, [mro |-> add_parent_str(mro[c], p), exit |-> FALSE], "add_parent")

AddParentList(c, p) == MroStep(c, add_parent_list(mro[c], p), "add_parent")

ComputeMro(c) == MroStep(c, [mro |-> compute_mro(mro[c]), exit |-> FALSE], "compute_mro")

ClearMro(c) == MroStep(c, [mro |-> clear_mro(c), exit |-> FALSE], "clear_mro")

VisitClassDef(c, names) == MroStep(c, PostProcessorVisitClassDef(mro, c, names), "visit_ClassDef")

NextMro ==
    \/ \E c \in Classes, p \in ParentNames : AddParentStr(c, p)
    \/ \E c \in Classes, p \in ParentLists \cup {mro[d] : d \in Classes} : AddParentList(c, p)
    \/ \E c \in Classes : ComputeMro(c)
    \/ \E c \in Classes : ClearMro(c)
    \/ \E c \in Classes, names \in ParentLists : VisitClassDef(c, names)

SpecMro == InitMroSpec /\ [][NextMro]_vars

(***************************************************************************)
(* SpecMroFn: fix_mro and compute_mro on arbitrary lists. The list of      *)
(* class A starts as any list over the parent names, duplicates included.  *)
(***************************************************************************)
MaxMroLen == 3

InitMroFn ==
    /\ defs = EmptyMap /\ order = <<>> /\ err = NoErr /\ closured = EmptyMap
    /\ last = [op |-> "init", ret |-> <<>>, arg |-> <<>>, islist |-> FALSE, parent |-> <<>>,
               prev |-> "init", prevret |-> <<>>]
    /\ pc = "mrofn" /\ InitCg /\ InitRun
    /\ \E l \in SeqsUpTo(ParentNames, MaxMroLen) : mro = [c \in Classes |-> IF c = ClsA THEN l ELSE <<c>>]
    /\ exited = FALSE

\* last keeps the operation, its class, the list it found (arg) and, for an
\* add_parent with a list, that list (parent)
MroFnStep(c, r, op, islist, parent) ==
    /\ pc = "mrofn" /\ ~exited
    /\ mro' = [mro EXCEPT ![c] = r.mro]
    /\ exited' = r.exit
    /\ last' = [op |-> op, ret |-> c, arg |-> mro[c], islist |-> islist, parent |-> parent,
                prev |-> last.op, prevret |-> last.ret]
    /\ UNCHANGED <<defs, order, err, closured, pc, cgVars, runVars>>

\* cls.fix_mro()
FnFixMro(c) ==
    MroFnStep(c, [mro |-> fix_mro(mro[c]), exit |-> FALSE], "fix_mro", FALSE, <<>>)

\* cls.compute_mro()
FnComputeMro(c) ==
    MroFnStep(c, [mro |-> compute_mro(mro[c]), exit |-> FALSE], "compute_mro", FALSE, <<>>)

\* cls.add_parent(name)
FnAddParentStr(c, p) ==
    MroFnStep(c, [mro |-> add_parent_str(mro[c], p), exit |-> FALSE], "add_parent",
              FALSE, <<>>)

\* cls.add_parent(parent_cls.get_mro())
FnAddParentList(c, p) == MroFnStep(c, add_parent_list(mro[c], p), "add_parent", TRUE, p)

NextMroFn ==
    \/ \E c \in Classes : FnFixMro(c)
    \/ \E c \in Classes : FnComputeMro(c)
    \/ \E c \in Classes, p \in ParentNames : FnAddParentStr(c, p)
    \/ \E c \in Classes, p \in ParentLists \cup {mro[d] : d \in Classes} :
           FnAddParentList(c, p)

SpecMroFn == InitMroFn /\ [][NextMroFn]_vars

(***************************************************************************)
(* callgraph.py: CallGraph. A graph is [cg, cg_extended, modnames, err];   *)
(* a node name or module name is a namespace, <<>> being the empty string. *)
(***************************************************************************)
CallGraphError == "CallGraphError"

Graph(c, x, m, e) == [cg |-> c, cg_extended |-> x, modnames |-> m, err |-> e]

\* CallGraph.add_node(name, modname); isStr = FALSE stands for a name that is
\* not a string
add_node(G, isStr, name, modname) ==
    IF ~isStr THEN [G EXCEPT !.err = CallGraphError]
    ELSE IF name = <<>> THEN [G EXCEPT !.err = CallGraphError]
    ELSE LET G1 == IF name \notin DOMAIN G.cg
                   THEN Graph(Put(G.cg, name, {}),
                              Put(G.cg_extended, name,
                                  [dsts |-> <<>>, meta |-> [modname |-> modname]]),
                              Put(G.modnames, name, modname), NoErr)
                   ELSE [G EXCEPT !.err = NoErr]
         IN IF name \in DOMAIN G1.cg /\ G1.modnames[name] = <<>>
            THEN [G1 EXCEPT !.modnames[name] = modname]
            ELSE IF G1.cg_extended[name].meta.modname = <<>>
                 THEN [G1 EXCEPT !.cg_extended[name].meta.modname = modname]
                 ELSE G1

\* add_edge without its add_node(dest)
add_edge_no_dest(G, srcIsStr, src, destIsStr, dest, lineno, mod, ext_mod) ==
    LET G1 == add_node(G, srcIsStr, src, mod)
    IN IF G1.err # NoErr THEN G1
       ELSE IF ~destIsStr \/ dest = <<>> THEN [G1 EXCEPT !.err = CallGraphError]
       ELSE [G1 EXCEPT !.cg[src] = @ \cup {dest},
                       !.cg_extended[src].dsts =
                           Append(@, [dst |-> dest, lineno |-> lineno,
                                      mod |-> mod, ext_mod |-> ext_mod])]

\* CallGraph.add_edge(src, dest, lineno, mod, ext_mod)
add_edge(G, srcIsStr, src, destIsStr, dest, lineno, mod, ext_mod) ==
    LET G1 == add_node(G, srcIsStr, src, mod)
        G2 == add_node(G1, destIsStr, dest, <<>>)
    IN IF G1.err # NoErr THEN G1
       ELSE IF G2.err # NoErr THEN G2
       ELSE [G2 EXCEPT !.cg[src] = @ \cup {dest},
                       !.cg_extended[src].dsts =
                           Append(@, [dst |-> dest, lineno |-> lineno,
                                      mod |-> mod, ext_mod |-> ext_mod])]

(***************************************************************************)
(* SpecCG: the call graph under add_node and add_edge                      *)
(***************************************************************************)
MaxDsts == 2      \* edges recorded for one source node in cg_extended

NodeX == <<"a", "f">>
NodeY == <<"a", "g">>
\* node names handed in: two namespaces, the empty string and a non-string
NodeArgs == {[isStr |-> TRUE, name |-> n] : n \in {NodeX, NodeY, <<>>}}
                \cup {[isStr |-> FALSE, name |-> <<>>]}
ModArgs == {<<>>, <<"a">>}
DefaultLineno == -1
Linenos == {DefaultLineno}

TheGraph == Graph(cg, cg_extended, modnames, err)

InitCgSpec ==
    /\ InitStoreIdle /\ pc = "cg" /\ InitRun
    /\ InitCg /\ InitMro

CgStep(G, op, n) ==
    /\ \A k \in DOMAIN G.cg_extended : Len(G.cg_extended[k].dsts) <= MaxDsts
    /\ cg' = G.cg /\ cg_extended' = G.cg_extended /\ modnames' = G.modnames
    /\ err' = G.err
    /\ last' = [op |-> op, ret |-> n]
    /\ UNCHANGED <<defs, order, closured, pc, mroVars, runVars>>

AddNode(a, m) == CgStep(add_node(TheGraph, a.isStr, a.name, m), "add_node", a.name)

AddEdge(s, d, l, m) ==
    CgStep(add_edge(TheGraph, s.isStr, s.name, d.isStr, d.name, l, m, <<>>), "add_edge", s.name)

NextCg ==
    \/ \E a \in NodeArgs, m \in ModArgs : AddNode(a, m)
    \/ \E s \in NodeArgs, d \in NodeArgs, l \in Linenos, m \in ModArgs : AddEdge(s, d, l, m)

SpecCG == InitCgSpec /\ [][NextCg]_vars

(***************************************************************************)
(* Iteration order. A Python set is iterated in an order the program does  *)
(* not control (it follows the hashes of the elements). An order rk lists  *)
(* every namespace once; a run iterates each set of namespaces in the      *)
(* order rk gives its elements, and every rk is a possible run. The keys   *)
(* of an args dict are iterated in insertion order (arg_order).            *)
(***************************************************************************)
\* the elements of the set S in the order rk
RECURSIVE SeqOfSet(_, _)
SeqOfSet(S, rk) ==
    IF rk = <<>> THEN <<>>
    ELSE IF Head(rk) \in S THEN <<Head(rk)>> \o SeqOfSet(S, Tail(rk))
    ELSE SeqOfSet(S, Tail(rk))

\* all orders of the elements of S
RECURSIVE Perms(_)
Perms(S) ==
    IF S = {} THEN {<<>>}
    ELSE UNION {{<<x>> \o q : q \in Perms(S \ {x})} : x \in S}

(***************************************************************************)
(* definitions.py: DefinitionManager.transitive_closure                    *)
(***************************************************************************)
\* a new_set that always starts with the definition's own namespace
new_set_with_self(D, ns) == {ns}

\* new_set as dfs initialises it: the own namespace when the pointer is empty
new_set_of(D, ns) == IF D[ns].name_pointer.values = {} THEN {ns} ELSE {}

\* the items of a target taken as dfs returned them, empty or not
closure_items_raw(C, name) == C[name]

\* "items = dfs(self.defs[name]); if not items: items = {name}"
closure_items(C, name) == IF C[name] = {} THEN {name} ELSE C[name]

\* dfs(defi): C is the dict closured, whose entry for a namespace is the set
\* new_set of the call that is (or was) working on it
RECURSIVE dfs(_, _, _, _), dfs_names(_, _, _, _, _)
dfs(D, C, ns, rk) ==
    IF ns \in DOMAIN C THEN C
    ELSE LET new_set == new_set_of(D, ns)
         IN dfs_names(D, Put(C, ns, new_set), ns,
                      SeqOfSet(D[ns].name_pointer.values, rk), rk)

\* the loop "for name in name_pointer.values" of dfs
dfs_names(D, C, ns, names, rk) ==
    IF names = <<>> THEN C
    ELSE LET name == Head(names)
         IN IF name \notin DOMAIN D THEN dfs_names(D, C, ns, Tail(names), rk)
            ELSE LET C1 == dfs(D, C, name, rk)
                     items == closure_items(C1, name)
                 IN dfs_names(D, [C1 EXCEPT ![ns] = @ \cup items], ns, Tail(names), rk)

\* the loop "for current_def in self.defs.values()"
RECURSIVE closure_loop(_, _, _, _)
closure_loop(D, C, O, rk) ==
    IF O = <<>> THEN C
    ELSE closure_loop(D, dfs(D, C, Head(O), rk), Tail(O), rk)

transitive_closure(D, O, rk) == closure_loop(D, EmptyMap, O, rk)

(***************************************************************************)
(* definitions.py: DefinitionManager.complete_definitions                  *)
(***************************************************************************)
KeyError == "KeyError"

\* what a loop of complete_definitions leaves: the store, changed_something,
\* and the exception that ended it
Upd(D, ch) == [defs |-> D, changed |-> ch, err |-> NoErr]
Raised(D, e) == [defs |-> D, changed |-> FALSE, err |-> e]

\* update_pointsto_args(pointsto_args, arg, name): the loop over pointsto_args.
\* arg is the live set D[ns].name_pointer.args[arg_name]; ts is what is left of
\* pointsto_args to iterate.
RECURSIVE update_loop(_, _, _, _, _)
update_loop(D, ch, ns, arg_name, ts) ==
    IF ts = <<>> THEN Upd(D, ch)
    ELSE LET t == Head(ts)
         IN IF ~Has(D, t) \/ t = ns
            THEN update_loop(D, ch, ns, arg_name, Tail(ts))
            ELSE IF t \notin DOMAIN D THEN Raised(D, KeyError)
            ELSE LET \* if pointsto_arg in arg: arg.remove(pointsto_arg)
                     D1 == [D EXCEPT ![ns].name_pointer.args[arg_name] = @ \ {t}]
                     arg == D1[ns].name_pointer.args[arg_name]
                     known == {item \in arg : Has(D1, item)}
                     grew == known \ D1[t].name_pointer.values # {}
                     D2 == [D1 EXCEPT ![t].name_pointer.values = @ \cup known]
                 IN update_loop(D2, ch \/ grew, ns, arg_name, Tail(ts))

update_pointsto_args(D, pointsto_args, ns, arg_name, rk) ==
    IF D[ns].name_pointer.args[arg_name] = pointsto_args THEN Upd(D, FALSE)
    ELSE update_loop(D, FALSE, ns, arg_name, SeqOfSet(pointsto_args, rk))

\* the body of "for arg_name, arg in current_name_pointer.args.items()"
cd_arg(D, ch, ns, name, arg_name, rk) ==
    LET cur == D[ns].name_pointer
        pt == D[name].name_pointer
        arg == cur.args[arg_name]
        isPos == arg_name \in DOMAIN cur.name_to_pos
        pos == cur.name_to_pos[arg_name]
        pointsto_args == IF isPos THEN GetPosArg(pt, pos) ELSE GetArg(pt, arg_name)
    IN IF pointsto_args = {}
       THEN IF isPos
            THEN Upd([D EXCEPT ![name].name_pointer = AddPosArg(pt, pos, "", arg)], ch)
            ELSE Upd([D EXCEPT ![name].name_pointer = AddArg(pt, arg_name, arg)], ch)
       ELSE \* changed_something or update_pointsto_args(...): not called once changed
            IF ch THEN Upd(D, ch)
            ELSE update_pointsto_args(D, pointsto_args, ns, arg_name, rk)

RECURSIVE cd_args(_, _, _, _, _, _)
cd_args(D, ch, ns, name, arg_names, rk) ==
    IF arg_names = <<>> THEN Upd(D, ch)
    ELSE LET r == cd_arg(D, ch, ns, name, Head(arg_names), rk)
         IN IF r.err # NoErr THEN r
            ELSE cd_args(r.defs, r.changed, ns, name, Tail(arg_names), rk)

\* the loop "for name in current_name_pointer.values.copy()"
RECURSIVE cd_names(_, _, _, _, _)
cd_names(D, ch, ns, names, rk) ==
    IF names = <<>> THEN Upd(D, ch)
    ELSE LET name == Head(names)
         IN IF name = ns \/ ~Has(D, name)
            THEN cd_names(D, ch, ns, Tail(names), rk)
            ELSE IF name \notin DOMAIN D THEN Raised(D, KeyError)
            ELSE LET r == cd_args(D, ch, ns, name,
                                  D[ns].name_pointer.arg_order, rk)
                 IN IF r.err # NoErr THEN r
                    ELSE cd_names(r.defs, r.changed, ns, Tail(names), rk)

\* the loop "for ns, current_def in self.defs.items()": one pass
RECURSIVE cd_pass(_, _, _, _)
cd_pass(D, ch, O, rk) ==
    IF O = <<>> THEN Upd(D, ch)
    ELSE LET ns == Head(O)
             r == cd_names(D, ch, ns, SeqOfSet(D[ns].name_pointer.values, rk), rk)
         IN IF r.err # NoErr THEN r ELSE cd_pass(r.defs, r.changed, Tail(O), rk)

\* the loop "for i in range(len(self.defs))", from pass i on
RECURSIVE cd_passes(_, _, _, _)
cd_passes(D, O, i, rk) ==
    IF i >= Len(O) THEN Upd(D, FALSE)
    ELSE LET r == cd_pass(D, FALSE, O, rk)
         IN IF r.err # NoErr \/ ~r.changed THEN r ELSE cd_passes(r.defs, O, i + 1, rk)

\* complete_definitions(): the store it leaves, and the exception it raised
complete_definitions_result(D, O, rk) == cd_passes(D, O, 0, rk)

complete_definitions(D, O, rk) == complete_definitions_result(D, O, rk).defs

(***************************************************************************)
(* SpecTC: transitive_closure on the stores of a bounded family. The store *)
(* holds three name definitions of two modules; every name pointer is a    *)
(* set of at most MaxValues of them and of a namespace the store lacks.    *)
(***************************************************************************)
MaxValues == 2    \* elements of a name pointer of the family

DefA == <<"m", "a">>
DefB == <<"m", "b">>
DefC == <<"n", "c">>
Missing == <<"z">>
TcNames == {DefA, DefB, DefC}

SubsetsUpTo(S, n) == {T \in SUBSET S : Cardinality(T) <= n}

\* a NAME definition whose name pointer holds vals
NameDef(ns, vals) == [NewDefinition(ns, NAME_DEF) EXCEPT !.name_pointer.values = vals]

InitTC ==
    /\ \E v \in [TcNames -> SubsetsUpTo(TcNames \cup {Missing}, MaxValues)] :
           defs = [n \in TcNames |-> NameDef(n, v[n])]
    /\ order \in Perms(TcNames)
    /\ rank \in Perms(TcNames \cup {Missing})
    /\ snap = NoSnap /\ InitAst /\ InitImp /\ InitMods
    /\ err = NoErr /\ last = [op |-> "init", ret |-> <<>>]
    /\ closured = EmptyMap /\ pc = "tc"
    /\ InitMro /\ InitCg

\* the processors' self.closured = self.def_manager.transitive_closure()
TransitiveClosure ==
    /\ pc = "tc"
    /\ closured' = transitive_closure(defs, order, rank)
    /\ pc' = "closed"
    /\ last' = [op |-> "transitive_closure", ret |-> <<>>]
    /\ UNCHANGED <<defs, order, err, mroVars, cgVars, runVars>>

NextTC == TransitiveClosure

SpecTC == InitTC /\ [][NextTC]_vars

(***************************************************************************)
(* SpecCD: complete_definitions, called twice in succession, on the stores *)
(* of a bounded family. Two independent modules m and n hold two name      *)
(* definitions each; a definition points to nothing or to the other        *)
(* definition of its module, and has no argument or one argument "x"       *)
(* (keyword, or positional at ArgPos) holding at most MaxArg definitions   *)
(* of its module.                                                          *)
(***************************************************************************)
MaxArg == 2       \* elements of an argument set of the family
ArgPos == 0       \* the position of a positional argument of the family

DefD == <<"n", "d">>
ModM == {DefA, DefB}
ModN == {DefC, DefD}
CdNames == ModM \cup ModN

\* the definitions of the module of ns
ModuleOf(ns) == IF ns \in ModM THEN ModM ELSE ModN

\* the name pointers a definition of the family can start with
FamilyPointers(ns) ==
    LET vals == {{}} \cup {{t} : t \in ModuleOf(ns) \ {ns}}
        argsets == SubsetsUpTo(ModuleOf(ns), MaxArg) \ {{}}
        base(v) == [NewNamePointer EXCEPT !.values = v]
    IN {base(v) : v \in vals}
       \cup {AddArg(base(v), "x", a) : v \in vals, a \in argsets}
       \cup {AddPosArg(base(v), ArgPos, "x", a) : v \in vals, a \in argsets}

\* the orders in which the two modules can have been processed
ModuleOrders == {<<DefA, DefB, DefC, DefD>>, <<DefC, DefD, DefA, DefB>>}

InitCD ==
    /\ \E pa \in FamilyPointers(DefA), pb \in FamilyPointers(DefB),
          pc0 \in FamilyPointers(DefC), pd \in FamilyPointers(DefD) :
          LET np == [n \in CdNames |-> IF n = DefA THEN pa ELSE IF n = DefB THEN pb
                                       ELSE IF n = DefC THEN pc0 ELSE pd]
          IN defs = [n \in CdNames |->
                        [NewDefinition(n, NAME_DEF) EXCEPT !.name_pointer = np[n]]]
    /\ order = <<DefA, DefB, DefC, DefD>>
    /\ rank \in {p \o q : p \in Perms(ModM), q \in Perms(ModN)}
    /\ snap = NoSnap /\ InitAst /\ InitImp /\ InitMods
    /\ err = NoErr /\ last = [op |-> "init", ret |-> <<>>]
    /\ closured = EmptyMap /\ pc = "cd0"
    /\ InitMro /\ InitCg

\* self.def_manager.complete_definitions(), at most twice in a run
CompleteDefinitions ==
    /\ pc \in {"cd0", "cd1"}
    /\ snap' = [defs |-> defs, order |-> order]
    /\ defs' = complete_definitions(defs, order, rank)
    /\ pc' = IF pc = "cd0" THEN "cd1" ELSE "cd2"
    /\ last' = [op |-> "complete_definitions", ret |-> <<>>]
    /\ UNCHANGED <<order, err, closured, rank, astVars, impVars, modVars, mroVars, cgVars>>

NextCD == CompleteDefinitions

SpecCD == InitCD /\ [][NextCD]_vars

(***************************************************************************)
(* The three passes over one module. The module is a: two functions f and  *)
(* g without parameters, whose bodies are calls name() of plain names,     *)
(* followed by module-level calls of the same kind.                        *)
(***************************************************************************)
CLS_INIT == "__init__"

\* ScopeManager.handle_module(modname, ...): the scope of the module and of
\* each of its functions, and the items it returns
handle_module(modname, fnames) ==
    LET fns == [i \in 1..Len(fnames) |-> join_ns(modname, fnames[i])]
    IN [scopes |-> [ns \in {modname} \cup {fns[i] : i \in 1..Len(fns)} |->
                       [parent |-> IF ns = modname THEN <<>> ELSE modname,
                        defs |-> EmptyMap]],
        functions |-> fns, classes |-> <<>>]

\* Scope.add_def(name, defi): the scope records the namespace of defi
scope_add_def(S, ns, name, defi_ns) == [S EXCEPT ![ns].defs = Put(S[ns].defs, name, defi_ns)]

\* ScopeManager.get_def(current_ns, name): the lookup up the chain of parents;
\* <<>> stands for None
RECURSIVE get_def(_, _, _)
get_def(S, ns, name) ==
    IF ns \notin DOMAIN S THEN <<>>
    ELSE IF name \in DOMAIN S[ns].defs THEN S[ns].defs[name]
    ELSE IF S[ns].parent = <<>> THEN <<>>
    ELSE get_def(S, S[ns].parent, name)

\* the add_def calls of PreProcessor.visit_Module: the module under its own
\* name, then every item under its last segment in the scope of its parent
RECURSIVE scope_items(_, _)
scope_items(S, items) ==
    IF items = <<>> THEN S
    ELSE LET item == Head(items)
         IN scope_items(scope_add_def(S, SubSeq(item, 1, Len(item) - 1), item[Len(item)], item),
                        Tail(items))

PreProcessorScopes(modname, fnames) ==
    LET hm == handle_module(modname, fnames)
        S1 == scope_add_def(hm.scopes, modname, modname[Len(modname)], modname)
    IN scope_items(S1, hm.functions \o hm.classes)

\* ProcessingBase.retrieve_call_names(node) for node.func a plain name id
retrieve_call_names(S, C, current_ns, id) ==
    LET defi == get_def(S, current_ns, id)
    IN IF defi = <<>> THEN {}
       ELSE IF defi \in DOMAIN C THEN C[defi] ELSE {}

\* CallGraphProcessor.visit_Call, the loop "for pointer in names". The store of
\* this module holds no class and no external definition, so that a callable
\* pointer is a function and gets the edge current_method -> pointer.
RECURSIVE cg_call_pointers(_, _, _, _, _, _, _)
cg_call_pointers(G, D, S, names, current_method, lineno, modname) ==
    IF names = <<>> THEN G
    ELSE LET p0 == Head(names)
             pointer == IF join_ns(p0, CLS_INIT) \in DOMAIN S THEN join_ns(p0, CLS_INIT) ELSE p0
             G1 == IF pointer \in DOMAIN D /\ is_function_def(D[pointer])
                   THEN add_edge(G, TRUE, current_method, TRUE, pointer, lineno, modname, <<>>)
                   ELSE G
         IN cg_call_pointers(G1, D, S, Tail(names), current_method, lineno, modname)

\* visit_Call with every edge leaving the module node
cg_visit_Call_from_module(G, D, S, C, current_ns, id, lineno, modname, rk) ==
    cg_call_pointers(G, D, S, SeqOfSet(retrieve_call_names(S, C, current_ns, id), rk),
                     modname, lineno, modname)

\* CallGraphProcessor.visit_Call for the call id() met in current_ns (which is
\* current_method here). With no names found the fail-safe logic adds nothing
\* for a plain name that is not a builtin.
cg_visit_Call(G, D, S, C, current_ns, id, lineno, modname, rk) ==
    cg_call_pointers(G, D, S, SeqOfSet(retrieve_call_names(S, C, current_ns, id), rk),
                     current_ns, lineno, modname)

(***************************************************************************)
(* SpecEmit: preprocess, postprocess and call-graph emission of module a   *)
(***************************************************************************)
MaxCalls == 1     \* calls in one body

FnOrder == <<"f", "g">>
\* the names a body calls: the two functions and a name nothing defines
CallNames == {"f", "g", "h"}
Bodies == SeqsUpTo(CallNames, MaxCalls)

NodeOf(kind, ns, id) == [kind |-> kind, ns |-> ns, id |-> id]

CallNodes(ns, body) == [i \in 1..Len(body) |-> NodeOf("Call", ns, body[i])]

\* the nodes in the order ast.NodeVisitor meets them
Nodes(p) ==
    <<NodeOf("Module", <<>>, "a")>>
        \o <<NodeOf("FunctionDef", ModA, "f")>> \o CallNodes(join_ns(ModA, "f"), p.f)
        \o <<NodeOf("FunctionDef", ModA, "g")>> \o CallNodes(join_ns(ModA, "g"), p.g)
        \o CallNodes(ModA, p.mod)

\* node.lineno: the nodes stand on successive lines
Lineno == Len(Nodes(prog)) - Len(todo)

InitEmit ==
    /\ prog \in [mod : Bodies, f : Bodies, g : Bodies]
    /\ rank \in Perms({join_ns(ModA, "f"), join_ns(ModA, "g")})
    /\ scopes = EmptyMap /\ todo = <<>> /\ snap = NoSnap
    /\ defs = EmptyMap /\ order = <<>> /\ err = NoErr
    /\ last = [op |-> "init", ret |-> <<>>]
    /\ closured = EmptyMap /\ pc = "pre"
    /\ InitMro /\ InitCg /\ InitImp /\ InitMods

\* PreProcessor.analyze: visit_Module, then visit_FunctionDef for f and g;
\* visit_Call finds no argument to bind
PreProcess ==
    /\ pc = "pre"
    /\ LET hm == handle_module(ModA, FnOrder)
           r == PreProcessorVisitModule(defs, order, ModA, hm.functions, hm.classes,
                                        hm.functions)
       IN defs' = r.defs /\ order' = r.order /\ err' = r.err
    /\ scopes' = PreProcessorScopes(ModA, FnOrder)
    /\ pc' = "post"
    /\ last' = [op |-> "PreProcessor.analyze", ret |-> ModA]
    /\ UNCHANGED <<closured, rank, snap, prog, todo, impVars, modVars, mroVars, cgVars>>

\* PostProcessor.__init__ and analyze: the closure is computed; the calls of
\* this module have no argument to propagate
PostProcess ==
    /\ pc = "post"
    /\ closured' = transitive_closure(defs, order, rank)
    /\ pc' = "solve"
    /\ last' = [op |-> "PostProcessor.analyze", ret |-> ModA]
    /\ UNCHANGED <<defs, order, err, runVars, mroVars, cgVars>>

\* the driver's def_manager.complete_definitions() between the passes
Solve ==
    /\ pc = "solve"
    /\ defs' = complete_definitions(defs, order, rank)
    /\ pc' = "cginit"
    /\ last' = [op |-> "complete_definitions", ret |-> <<>>]
    /\ UNCHANGED <<order, err, closured, runVars, mroVars, cgVars>>

\* CallGraphProcessor.__init__, and analyze about to visit the tree
EmitInit ==
    /\ pc = "cginit"
    /\ closured' = transitive_closure(defs, order, rank)
    /\ todo' = Nodes(prog)
    /\ pc' = "emit"
    /\ last' = [op |-> "CallGraphProcessor.__init__", ret |-> ModA]
    /\ UNCHANGED <<defs, order, err, rank, snap, prog, scopes, impVars, modVars, mroVars, cgVars>>

\* what a visit of the emitter leaves
EmitStep(G, op) ==
    /\ cg' = G.cg /\ cg_extended' = G.cg_extended /\ modnames' = G.modnames
    /\ err' = G.err
    /\ todo' = Tail(todo)
    /\ pc' = IF Len(todo) = 1 THEN "done" ELSE "emit"
    /\ last' = [op |-> op, ret |-> Head(todo).ns]
    /\ UNCHANGED <<defs, order, closured, rank, snap, prog, scopes, impVars, modVars, mroVars>>

\* CallGraphProcessor.visit_Module
EmitVisitModule ==
    /\ pc = "emit" /\ Head(todo).kind = "Module"
    /\ EmitStep(add_node(TheGraph, TRUE, ModA, ModA), "visit_Module")

\* CallGraphProcessor.visit_FunctionDef of a function without decorators
EmitVisitFunctionDef ==
    /\ pc = "emit" /\ Head(todo).kind = "FunctionDef"
    /\ EmitStep(add_node(TheGraph, TRUE, join_ns(Head(todo).ns, Head(todo).id), ModA),
                "visit_FunctionDef")

\* CallGraphProcessor.visit_Call
EmitVisitCall ==
    /\ pc = "emit" /\ Head(todo).kind = "Call"
    /\ EmitStep(cg_visit_Call(TheGraph, defs, scopes, closured, Head(todo).ns,
                              Head(todo).id, Lineno, ModA, rank), "visit_Call")

NextEmit ==
    \/ PreProcess
    \/ PostProcess
    \/ Solve
    \/ EmitInit
    \/ EmitVisitModule
    \/ EmitVisitFunctionDef
    \/ EmitVisitCall

SpecEmit == InitEmit /\ [][NextEmit]_vars

(***************************************************************************)
(* imports.py: the import graph and the current module. A path is          *)
(* [abs, path]: whether it is absolute, and its segments.                  *)
(***************************************************************************)
Cwd == <<"work">>
\* os.path.abspath
abspath(p) == IF p.abs THEN p ELSE [abs |-> TRUE, path |-> Cwd \o p.path]

\* ImportManager.get_mod_dir(), as set_pkg left it
MOD_DIR == "pkg"
\* "mod_dir in fname"
in_mod_dir(fname) == \E i \in 1..Len(fname.path) : fname.path[i] = MOD_DIR

\* ImportManager.get_node(name) is not None
get_node(I, name) == name \in DOMAIN I.import_graph

\* ImportManager.create_node(name), for a name that has no node yet
create_node(I, name) ==
    [I EXCEPT !.import_graph =
         Put(I.import_graph, name, [filename |-> NoPath, imports |-> {}])]

\* ImportManager.set_filepath(node_name, filename), for an existing node
set_filepath(I, node_name, filename) ==
    [I EXCEPT !.import_graph[node_name].filename = abspath(filename)]

\* ImportManager.create_edge(dest): the edge starts at the current module
create_edge(I, dest) ==
    IF ~get_node(I, I.current_module) THEN I
    ELSE [I EXCEPT !.import_graph[I.current_module].imports = @ \cup {dest}]

\* ImportManager.set_current_mod(name, fname)
set_current_mod(I, name, fname) ==
    [I EXCEPT !.current_module = name, !.input_file = abspath(fname)]

\* ImportManager.get_filepath(modname); NoPath stands for None and ""
get_filepath(I, modname) ==
    IF modname \in DOMAIN I.import_graph THEN I.import_graph[modname].filename
    ELSE NoPath

\* ImportManager.get_imports(modname)
get_imports(I, modname) ==
    IF modname \notin DOMAIN I.import_graph THEN {}
    ELSE I.import_graph[modname].imports

\* CustomLoader.__init__(fullname, path): what finding a module records
CustomLoader(I, fullname, path) ==
    IF I.current_module = <<>> THEN I
    ELSE LET I1 == create_edge(I, fullname)
         IN IF get_node(I1, fullname) THEN I1
            ELSE set_filepath(create_node(I1, fullname), fullname, path)

(***************************************************************************)
(* base.py, preprocessor.py, postprocessor.py, cgprocessor.py: a pass.     *)
(* A visitor is a frame of run.stack: [mod, filename, sid, kw, phase,      *)
(* pending]; sid names the set object in run.heap that is its              *)
(* modules_analyzed, kw the set object that analyze_submodules was given   *)
(* as the modules_analyzed of the visitors it builds. run.src is the package: for each module what it       *)
(* imports, where its file is, and whether its source parses ("ok"), is    *)
(* rejected by ast.parse ("syntax"), or makes the visit raise another      *)
(* exception ("raise").                                                    *)
(***************************************************************************)
ModP == <<"p">>
ModS == <<"s">>
ModT == <<"t">>
Mods == {ModP, ModS, ModT}
Kinds == {"ok", "syntax", "raise"}

\* the file the host's finder locates for module m
FileOf(src, m) ==
    [abs |-> TRUE,
     path |-> IF src[m].inpkg THEN <<"work", MOD_DIR, m[1]>> ELSE <<"usr", "lib", m[1]>>]

\* the entry point as the driver names it: a path relative to the working directory
EntryFile == [abs |-> FALSE, path |-> <<MOD_DIR, "p">>]

Top(R) == R.stack[Len(R.stack)]

\* ProcessingBase.__init__(filename, modname, modules_analyzed): the visitor
\* adds itself to the set object it was given. R.built lists the modules of
\* the visitors constructed in this pass, in the order of their construction
NewVisitor(R, filename, modname, sid) ==
    [R EXCEPT !.heap[sid] = @ \cup {modname},
              !.built = Append(@, modname),
              !.stack = Append(@, [mod |-> modname, filename |-> abspath(filename),
                                   sid |-> sid, kw |-> sid, phase |-> "parse",
                                   pending |-> {}])]

\* ProcessingBase.get_modules_analyzed()
get_modules_analyzed(R, frame) == R.heap[frame.sid]

\* ProcessingBase.merge_modules_analyzed(analyzed) of the visitor at stack
\* position i: the union is a new set object
merge_modules_analyzed(R, i, analyzed) ==
    [R EXCEPT !.heap = Append(@, R.heap[R.stack[i].sid] \cup analyzed),
              !.stack[i].sid = Len(R.heap) + 1]

Event(R, e) == [R EXCEPT !.ev = e]

\* analyze_submodule without its test of modules_analyzed
analyze_submodule_call_unchecked(I, R, imp, sid) ==
    LET self == Top(R)
        fname == get_filepath(I, imp)
        skip == [kind |-> "skip", caller |-> self.mod, file |-> self.filename, sub |-> imp]
    IN IF fname = NoPath \/ ~in_mod_dir(fname) THEN [im |-> I, run |-> Event(R, skip)]
       ELSE [im |-> set_current_mod(I, imp, fname),
             run |-> Event(NewVisitor(R, fname, imp, sid),
                           [kind |-> "enter", caller |-> self.mod, sub |-> imp])]

\* the first half of ProcessingBase.analyze_submodule(cls, imp, ...,
\* modules_analyzed = heap[sid]), called by the visitor on top of the stack:
\* the two early returns, or the rebinding of the current module and the
\* construction of the visitor whose analyze() then runs
analyze_submodule_call(I, R, imp, sid) ==
    LET self == Top(R)
        fname == get_filepath(I, imp)
        skip == [kind |-> "skip", caller |-> self.mod, file |-> self.filename, sub |-> imp]
    IN IF imp \in get_modules_analyzed(R, self) THEN [im |-> I, run |-> Event(R, skip)]
       ELSE IF fname = NoPath \/ ~in_mod_dir(fname) THEN [im |-> I, run |-> Event(R, skip)]
       ELSE [im |-> set_current_mod(I, imp, fname),
             run |-> Event(NewVisitor(R, fname, imp, sid),
                           [kind |-> "enter", caller |-> self.mod, sub |-> imp])]

\* the second half of analyze_submodule, once visitor.analyze() has returned:
\* the caller merges the analysed modules and rebinds the current module
analyze_submodule_return(I, R) ==
    LET n == Len(R.stack)
        visitor == R.stack[n]
        self == R.stack[n - 1]
        R1 == merge_modules_analyzed(R, n - 1, get_modules_analyzed(R, visitor))
    IN [im |-> set_current_mod(I, self.mod, self.filename),
        run |-> Event([R1 EXCEPT !.stack = SubSeq(R1.stack, 1, n - 1)],
                      [kind |-> "return", caller |-> self.mod, file |-> self.filename,
                       sub |-> visitor.mod])]

\* an exception leaves visitor.analyze(): nothing on the stack catches it, so it
\* leaves every analyze_submodule and every analyze below it as well
exception_propagates(R) ==
    LET n == Len(R.stack)
    IN [R EXCEPT !.stack = <<>>, !.status = "raised",
                 !.ev = IF n >= 2
                        THEN [kind |-> "raise", caller |-> R.stack[n - 1].mod,
                              file |-> R.stack[n - 1].filename, sub |-> R.stack[n].mod]
                        ELSE [kind |-> "abort"]]

\* the module's body has been visited in this pass
Contribute(R, m) == [R EXCEPT !.visited[R.pass] = @ \cup {m}]

\* analyze() of a visitor that lets the SyntaxError of ast.parse through
try_visit_uncaught(R, m) ==
    IF R.src[m].kind = "ok" THEN Event(Contribute(R, m), [kind |-> "step"])
    ELSE exception_propagates(R)

\* PostProcessor.analyze / CallGraphProcessor.analyze:
\*   try: self.visit(ast.parse(self.contents, self.filename))
\*   except SyntaxError: pass
try_visit(R, m) ==
    CASE R.src[m].kind = "ok" -> Event(Contribute(R, m), [kind |-> "step"])
      [] R.src[m].kind = "syntax" -> Event(R, [kind |-> "step"])
      [] OTHER -> exception_propagates(R)

(***************************************************************************)
(* SpecPass: the three passes over a package of three modules              *)
(***************************************************************************)
Sources ==
    {[m \in Mods |-> IF m = ModP THEN p ELSE IF m = ModS THEN s ELSE t] :
        p \in [imports : SUBSET {ModS, ModT}, kind : Kinds, inpkg : {TRUE}],
        s \in [imports : SUBSET {ModP, ModT}, kind : Kinds, inpkg : {TRUE}],
        t \in [imports : SUBSET {ModS}, kind : Kinds, inpkg : BOOLEAN]}

InitPass ==
    /\ InitStoreIdle /\ pc = "pass" /\ InitMro /\ InitCg
    /\ rank = NoRank /\ snap = NoSnap /\ InitAst /\ InitMods
    /\ im = NewImportManager /\ sys = HostSys
    /\ \E src \in Sources :
           run = [NoRun EXCEPT !.src = src,
                               !.visited = [p \in {"pre", "post", "cg"} |-> {}]]

PassStep(r, op) ==
    /\ im' = r.im /\ run' = r.run
    /\ last' = [op |-> op, ret |-> <<>>]
    /\ UNCHANGED <<defs, order, err, closured, pc, mroVars, cgVars, rank, snap, astVars, sys, modVars>>

\* the driver starts pass p on the entry point: it builds the visitor with a
\* fresh modules_analyzed set and calls analyze()
StartPass(p) ==
    /\ \/ run.status = "idle" /\ p = "pre"
       \/ run.status = "done" /\ run.pass = "pre" /\ p = "post"
       \/ run.status = "done" /\ run.pass = "post" /\ p = "cg"
    /\ LET R0 == [run EXCEPT !.pass = p, !.status = "running", !.heap = <<{}>>,
                              !.built = <<>>]
       IN PassStep([im |-> im,
                    run |-> Event(NewVisitor(R0, EntryFile, ModP, 1),
                                  [kind |-> "start"])], "start")

\* PreProcessor.analyze up to the import statements of the body: the node of
\* the import graph, ast.parse, and visit_Module rebinding the current module
PreAnalyze ==
    /\ run.status = "running" /\ run.pass = "pre" /\ Top(run).phase = "parse"
    /\ LET self == Top(run)
           n == Len(run.stack)
           I1 == IF get_node(im, self.mod) THEN im
                 ELSE set_filepath(create_node(im, self.mod), self.mod, self.filename)
           parsed == run.src[self.mod].kind # "syntax"
           R1 == [run EXCEPT !.stack[n].phase = "loop",
                             !.stack[n].pending =
                                 IF parsed THEN run.src[self.mod].imports ELSE {}]
       IN PassStep([im |-> IF parsed THEN set_current_mod(I1, self.mod, self.filename)
                           ELSE I1,
                    run |-> Event(IF parsed THEN Contribute(R1, self.mod) ELSE R1,
                                  [kind |-> "step"])], "PreProcessor.analyze")

\* PreProcessor.visit_Import of "import imp": the finder records the edge and
\* the node; a module of the package that is not analysed yet is analysed now
\* (the loop over get_imports that follows finds nothing left to analyse)
PreVisitImport(imp) ==
    /\ run.status = "running" /\ run.pass = "pre" /\ Top(run).phase = "loop"
    /\ imp \in Top(run).pending
    /\ LET n == Len(run.stack)
           I1 == CustomLoader(im, imp, FileOf(run.src, imp))
           fname == get_filepath(I1, imp)
           R1 == [run EXCEPT !.stack[n].pending = @ \ {imp}]
       IN IF fname # NoPath /\ in_mod_dir(fname)
               /\ imp \notin get_modules_analyzed(R1, Top(R1))
          THEN PassStep(analyze_submodule_call(I1, R1, imp, Top(R1).sid), "visit_Import")
          ELSE PassStep([im |-> I1, run |-> Event(R1, [kind |-> "step"])], "visit_Import")

\* PostProcessor.analyze / CallGraphProcessor.analyze up to analyze_submodules:
\* the body is visited unless ast.parse raises SyntaxError
Analyze ==
    /\ run.status = "running" /\ run.pass \in {"post", "cg"} /\ Top(run).phase = "parse"
    /\ LET self == Top(run)
           n == Len(run.stack)
           R1 == [run EXCEPT !.stack[n].phase = "loop",
                             !.stack[n].kw = self.sid,
                             !.stack[n].pending = get_imports(im, self.mod)]
       IN PassStep([im |-> im, run |-> try_visit(R1, self.mod)], "analyze")

\* ProcessingBase.analyze_submodules: the next import of the loop
AnalyzeSubmodule(imp) ==
    /\ run.status = "running" /\ run.pass \in {"post", "cg"} /\ Top(run).phase = "loop"
    /\ imp \in Top(run).pending
    /\ LET n == Len(run.stack)
           R1 == [run EXCEPT !.stack[n].pending = @ \ {imp}]
       IN PassStep(analyze_submodule_call(im, R1, imp, Top(R1).kw), "analyze_submodule")

\* the visit of a module's body raises an exception that is no SyntaxError
PreVisitRaises ==
    /\ run.status = "running" /\ run.pass = "pre" /\ Top(run).phase = "loop"
    /\ run.src[Top(run).mod].kind = "raise"
    /\ PassStep([im |-> im, run |-> exception_propagates(run)], "visit")

\* analyze() returns: to analyze_submodule of the importing visitor, or to
\* the driver
AnalyzeReturns ==
    /\ run.status = "running" /\ Top(run).phase = "loop" /\ Top(run).pending = {}
    /\ run.pass = "pre" => run.src[Top(run).mod].kind # "raise"
    /\ IF Len(run.stack) >= 2
       THEN PassStep(analyze_submodule_return(im, run), "analyze_submodule")
       ELSE PassStep([im |-> im,
                      run |-> [run EXCEPT !.stack = <<>>, !.status = "done",
                                          !.analyzed = get_modules_analyzed(run, Top(run)),
                                          !.ev = [kind |-> "done"]]], "analyze")

NextPass ==
    \/ \E p \in {"pre", "post", "cg"} : StartPass(p)
    \/ PreAnalyze
    \/ \E imp \in Mods : PreVisitImport(imp)
    \/ Analyze
    \/ \E imp \in Mods : AnalyzeSubmodule(imp)
    \/ PreVisitRaises
    \/ AnalyzeReturns

SpecPass == InitPass /\ [][NextPass]_vars

\* the interpreter runs a pass, and the driver the three passes, without stopping
SpecPassFair == InitPass /\ [][NextPass]_vars /\ WF_vars(NextPass)

(***************************************************************************)
(* imports.py: install_hooks / remove_hooks                                *)
(***************************************************************************)
\* the path hook FileFinder.path_hook((loader, suffixes)) of the custom loader
LoaderHook == "FileFinder(CustomLoader)"

\* ImportManager._clear_caches(), on the host state S
clear_caches(I, S) ==
    [S EXCEPT !.path_importer_cache = {},
              !.modules = @ \ DOMAIN I.import_graph]

\* ImportManager.install_hooks(): the new states of the manager and the host
install_hooks(I, S) ==
    LET I1 == [I EXCEPT !.old_path_hooks = S.path_hooks, !.old_path = S.path]
        S1 == [S EXCEPT !.path_hooks = <<LoaderHook>> \o S.path_hooks,
                        !.path = <<abspath(I.mod_dir)>> \o S.path]
    IN [im |-> I1, sys |-> clear_caches(I1, S1)]

\* remove_hooks that leaves sys.path as it is
remove_hooks_keeps_path(I, S) ==
    [im |-> I, sys |-> clear_caches(I, [S EXCEPT !.path_hooks = I.old_path_hooks])]

\* ImportManager.remove_hooks()
remove_hooks(I, S) ==
    [im |-> I,
     sys |-> clear_caches(I, [S EXCEPT !.path_hooks = I.old_path_hooks,
                                      !.path = I.old_path])]

\* ImportManager._do_import(mod_name, package) for a module the host finds: a
\* module of sys.modules only gets its edge; otherwise the first path hook
\* builds the loader
do_import(I, S, mod_name, path) ==
    IF mod_name \in S.modules THEN [im |-> create_edge(I, mod_name), sys |-> S]
    ELSE [im |-> IF Head(S.path_hooks) = LoaderHook THEN CustomLoader(I, mod_name, path)
                 ELSE I,
          sys |-> [S EXCEPT !.modules = @ \cup {mod_name},
                            !.path_importer_cache = @ \cup {HostPath}]]

(***************************************************************************)
(* SpecHooks: one import manager installing and removing its hooks         *)
(***************************************************************************)
MaxInstalls == 3     \* install_hooks calls of a run

\* the package root as given to set_pkg: relative or absolute
PkgRoots == {[abs |-> FALSE, path |-> <<MOD_DIR>>], [abs |-> TRUE, path |-> <<"srv", MOD_DIR>>]}
\* what the host's search path holds before the analysis
HostPaths == {<<HostPath>>, <<[abs |-> TRUE, path |-> <<"site">>], HostPath>>}

InitHooks ==
    /\ InitStoreIdle /\ pc = "hooks" /\ InitMro /\ InitCg
    /\ rank = NoRank /\ snap = NoSnap /\ InitAst /\ InitMods
    /\ \E root \in PkgRoots : im = [NewImportManager EXCEPT !.mod_dir = root]
    /\ \E hp \in HostPaths : sys = [HostSys EXCEPT !.path = hp]
    /\ run = [NoRun EXCEPT !.ev = [kind |-> "hooks", depth |-> 0, installs |-> 0,
                                   nested |-> FALSE, before |-> <<>>]]

HooksStep(r, e, op) ==
    /\ im' = r.im /\ sys' = r.sys
    /\ run' = [run EXCEPT !.ev = e]
    /\ last' = [op |-> op, ret |-> <<>>]
    /\ UNCHANGED <<defs, order, err, closured, pc, mroVars, cgVars, rank, snap, astVars, modVars>>

\* install_hooks(); depth counts the installs that are not closed yet, and
\* before is what the host held when the first of them began
InstallHooks ==
    /\ run.ev.installs < MaxInstalls
    /\ HooksStep(install_hooks(im, sys),
                 [run.ev EXCEPT !.depth = @ + 1, !.installs = @ + 1,
                                !.nested = @ \/ run.ev.depth >= 1,
                                !.before = IF run.ev.depth = 0
                                           THEN <<sys.path_hooks, sys.path>> ELSE @],
                 "install_hooks")

\* remove_hooks(), closing an install_hooks()
RemoveHooks ==
    /\ run.ev.depth >= 1
    /\ HooksStep(remove_hooks(im, sys), [run.ev EXCEPT !.depth = @ - 1], "remove_hooks")

\* PreProcessor.analyze and visit_Module of the entry point: its node, and the
\* current module
EnterEntry ==
    /\ run.ev.depth >= 1 /\ ~get_node(im, ModP)
    /\ HooksStep([im |-> set_current_mod(
                             set_filepath(create_node(im, ModP), ModP, EntryFile),
                             ModP, EntryFile),
                  sys |-> sys], run.ev, "PreProcessor.analyze")

\* handle_import of a module the host finds
DoImport(m) ==
    HooksStep(do_import(im, sys, m, [abs |-> TRUE, path |-> <<"work", MOD_DIR, m[1]>>]),
              run.ev, "_do_import")

NextHooks ==
    \/ InstallHooks
    \/ RemoveHooks
    \/ EnterEntry
    \/ \E m \in {ModS, ModT} : DoImport(m)

SpecHooks == InitHooks /\ [][NextHooks]_vars

(***************************************************************************)
(* modules.py and the emitter of cgprocessor.py in full: visit_Call with   *)
(* its fail-safe logic, external edges, class instantiation, and           *)
(* visit_Raise. The function an expression calls is a name id or the       *)
(* attribute id.attr of a name. function_line_numbers, which only the      *)
(* output formats read, is left out.                                       *)
(***************************************************************************)
BUILTIN_NAME == "<builtin>"

NameNode(id) == [t |-> "Name", id |-> id, attr |-> ""]
AttributeNode(id, attr) == [t |-> "Attribute", id |-> id, attr |-> attr]

\* Module.__init__ and Module.add_method(method): a method that is listed
\* stays as it is
NewModule(name, filename) == [name |-> name, filename |-> filename, methods |-> EmptyMap]

module_add_method(mod, method) ==
    IF method \in DOMAIN mod.methods THEN mod
    ELSE [mod EXCEPT !.methods = Put(mod.methods, method,
                                     [name |-> method, first |-> "None", last |-> "None"])]

\* ModuleManager.create(name, fname, external)
module_create(M, name, fname, external) ==
    IF external THEN [M EXCEPT !.external = Put(M.external, name, NewModule(name, fname))]
    ELSE [M EXCEPT !.internal = Put(M.internal, name, NewModule(name, fname))]

\* ProcessingBase.add_ext_mod_node(name): ModuleManager.get looks among the
\* internal modules first; name.split(".")[0] is the first segment
add_ext_mod_node(M, name) ==
    LET ext_modname == <<name[1]>>
    IN IF ext_modname \in DOMAIN M.internal
       THEN [M EXCEPT !.internal =
                Put(M.internal, ext_modname, module_add_method(M.internal[ext_modname], name))]
       ELSE LET M1 == IF ext_modname \in DOMAIN M.external THEN M
                      ELSE LET M0 == module_create(M, ext_modname, "None", TRUE)
                           IN [M0 EXCEPT !.external =
                                  Put(M0.external, ext_modname,
                                      module_add_method(M0.external[ext_modname],
                                                        ext_modname))]
            IN [M1 EXCEPT !.external =
                   Put(M1.external, ext_modname,
                       module_add_method(M1.external[ext_modname], name))]

\* what the emitter writes to: the graph, the store and the module table
Emitter(G, D, O, M) == [G |-> G, defs |-> D, order |-> O, mm |-> M]

\* find_cls_fun_ns, the loop over the mro of the class
RECURSIVE find_cls_fun_loop(_, _, _, _, _, _)
find_cls_fun_loop(D, C, items, fn, idx, ext_names) ==
    IF idx > Len(items) THEN [found |-> FALSE, names |-> ext_names]
    ELSE LET item == items[idx]
             ns == join_ns(item, fn)
             names == IF ns \in DOMAIN C /\ C[ns] # {} THEN C[ns] ELSE {ns}
         IN IF ns \in DOMAIN D THEN [found |-> TRUE, names |-> names]
            ELSE find_cls_fun_loop(D, C, items, fn, idx + 1,
                                   IF item \in DOMAIN D /\ D[item].def_type = EXT_DEF
                                   THEN ext_names \cup {ns} ELSE ext_names)

\* find_cls_fun_ns, the loop "for name in ext_names"
RECURSIVE find_cls_fun_ext(_, _, _)
find_cls_fun_ext(E, names, all) ==
    IF names = <<>> THEN [E |-> E, names |-> all]
    ELSE LET r == ManagerCreate(E.defs, E.order, TRUE, Head(names), EXT_DEF)
         IN find_cls_fun_ext([E EXCEPT !.defs = r.defs, !.order = r.order,
                                       !.mm = add_ext_mod_node(E.mm, Head(names))],
                             Tail(names), all)

\* ProcessingBase.find_cls_fun_ns(cls_name, fn); Mr is the class table
find_cls_fun_ns(E, C, Mr, cls_name, fn, rk) ==
    IF cls_name \notin DOMAIN Mr THEN [E |-> E, names |-> {}]
    ELSE LET r == find_cls_fun_loop(E.defs, C, Mr[cls_name], fn, 1, {})
         IN IF r.found THEN [E |-> E, names |-> r.names]
            ELSE find_cls_fun_ext(E, SeqOfSet(r.names, rk), r.names)

\* ProcessingBase._retrieve_parent_names(node) for node.value a name
retrieve_parent_names(S, C, current_ns, node) ==
    LET parent == get_def(S, current_ns, node.id)
    IN IF parent = <<>> THEN {}
       ELSE IF parent \in DOMAIN C /\ C[parent] # {} THEN C[parent] ELSE {parent}

\* "node.attr in name", a substring test; the identifiers of this model are
\* such that attr occurs in name exactly when it is one of its segments
attr_in_name(attr, name) == \E i \in 1..Len(name) : name[i] = attr

\* the names _retrieve_attribute_names goes through, in the order of its loops
RECURSIVE closured_names(_, _, _)
closured_names(C, parents, rk) ==
    IF parents = <<>> THEN <<>>
    ELSE (IF Head(parents) \in DOMAIN C THEN SeqOfSet(C[Head(parents)], rk) ELSE <<>>)
             \o closured_names(C, Tail(parents), rk)

RECURSIVE attribute_names_loop(_, _, _, _, _, _, _)
attribute_names_loop(E, C, Mr, todoNames, attr, names, rk) ==
    IF todoNames = <<>> THEN [E |-> E, names |-> names]
    ELSE LET name == Head(todoNames)
             rest == Tail(todoNames)
         IN IF name \notin DOMAIN E.defs
            THEN attribute_names_loop(E, C, Mr, rest, attr, names, rk)
            ELSE IF E.defs[name].def_type = CLS_DEF
            THEN LET r == find_cls_fun_ns(E, C, Mr, name, attr, rk)
                 IN attribute_names_loop(r.E, C, Mr, rest, attr, names \cup r.names, rk)
            ELSE IF E.defs[name].def_type \in {FUN_DEF, MOD_DEF}
            THEN attribute_names_loop(E, C, Mr, rest, attr,
                                      names \cup {join_ns(name, attr)}, rk)
            ELSE IF E.defs[name].def_type = EXT_DEF /\ ~attr_in_name(attr, name)
            THEN LET ext_name == join_ns(name, attr)
                     r == ManagerCreate(E.defs, E.order, TRUE, ext_name, EXT_DEF)
                     E1 == IF ext_name \in DOMAIN E.defs THEN E
                           ELSE [E EXCEPT !.defs = r.defs, !.order = r.order]
                 IN attribute_names_loop(E1, C, Mr, rest, attr, names \cup {ext_name}, rk)
            ELSE attribute_names_loop(E, C, Mr, rest, attr, names, rk)

\* ProcessingBase._retrieve_attribute_names(node)
retrieve_attribute_names(E, S, C, Mr, current_ns, node, rk) ==
    IF C = EmptyMap THEN [E |-> E, names |-> {}]
    ELSE attribute_names_loop(E, C, Mr,
             closured_names(C, SeqOfSet(retrieve_parent_names(S, C, current_ns, node), rk), rk),
             node.attr, {}, rk)

\* ProcessingBase.retrieve_call_names(node) for node.func a name or an attribute
call_names(E, S, C, Mr, current_ns, func, rk) ==
    IF func.t = "Name" THEN [E |-> E, names |-> retrieve_call_names(S, C, current_ns, func.id)]
    ELSE retrieve_attribute_names(E, S, C, Mr, current_ns, func, rk)

\* the names of __builtins__ the calls of this model use
Builtins == {"print"}

\* CallGraphProcessor.is_builtin(name)
is_builtin(name) == name \in Builtins

\* CallGraphProcessor.has_ext_parent(node) for node.value a name
has_ext_parent(D, S, C, current_ns, node) ==
    /\ node.t = "Attribute"
    /\ \E parent \in retrieve_parent_names(S, C, current_ns, node) :
           /\ parent \in DOMAIN C
           /\ \E name \in C[parent] : name \in DOMAIN D /\ D[name].def_type = EXT_DEF

\* CallGraphProcessor.get_full_attr_names(node) for node.value a name
get_full_attr_names(S, C, current_ns, node, rk) ==
    LET defi == get_def(S, current_ns, node.id)
        ids == IF defi # <<>> /\ defi \in DOMAIN C THEN SeqOfSet(C[defi], rk) ELSE <<>>
    IN [i \in 1..Len(ids) |-> join_ns(ids[i], node.attr)]

\* create_ext_edge(name, ext_modname, e_lineno, mod) of visit_Call
create_ext_edge(E, current_method, name, ext_modname, e_lineno, mod) ==
    LET G1 == add_node(E.G, TRUE, name, ext_modname)
    IN [E EXCEPT !.mm = add_ext_mod_node(E.mm, name),
                 !.G = add_edge(G1, TRUE, current_method, TRUE, name, e_lineno, mod,
                                ext_modname)]

RECURSIVE ext_edges(_, _, _, _, _)
ext_edges(E, current_method, names, lineno, mod) ==
    IF names = <<>> THEN E
    ELSE ext_edges(create_ext_edge(E, current_method, Head(names), <<Head(names)[1]>>,
                                   lineno, mod),
                   current_method, Tail(names), lineno, mod)

\* the fail-safe logic without its test for "self." in the text of the chain
fail_safe_no_self_test(E, S, C, current_ns, current_method, func, lineno, mod, rk) ==
    IF func.t = "Attribute" /\ has_ext_parent(E.defs, S, C, current_ns, func)
    THEN ext_edges(E, current_method, get_full_attr_names(S, C, current_ns, func, rk),
                   lineno, mod)
    ELSE IF func.t = "Name" /\ is_builtin(func.id)
    THEN create_ext_edge(E, current_method, <<BUILTIN_NAME, func.id>>, <<BUILTIN_NAME>>,
                         lineno, mod)
    ELSE IF func.t = "Attribute"
    THEN create_ext_edge(E, current_method, <<func.id, func.attr>>, <<BUILTIN_NAME>>,
                         lineno, mod)
    ELSE E

\* visit_Call, the branch "if not names": an attribute of an external parent,
\* a builtin, any other attribute unless "self." is in its text
fail_safe(E, S, C, current_ns, current_method, func, lineno, mod, rk) ==
    IF func.t = "Attribute" /\ has_ext_parent(E.defs, S, C, current_ns, func)
    THEN ext_edges(E, current_method, get_full_attr_names(S, C, current_ns, func, rk),
                   lineno, mod)
    ELSE IF func.t = "Name" /\ is_builtin(func.id)
    THEN create_ext_edge(E, current_method, <<BUILTIN_NAME, func.id>>, <<BUILTIN_NAME>>,
                         lineno, mod)
    ELSE IF func.t = "Attribute" /\ func.id # "self"
    THEN create_ext_edge(E, current_method, <<func.id, func.attr>>, <<BUILTIN_NAME>>,
                         lineno, mod)
    ELSE E

RECURSIVE init_edges(_, _, _, _, _)
init_edges(G, current_method, names, lineno, mod) ==
    IF names = <<>> THEN G
    ELSE init_edges(add_edge(G, TRUE, current_method, TRUE, Head(names), lineno, mod, <<>>),
                    current_method, Tail(names), lineno, mod)

\* visit_Call, the loop "for pointer in names"
RECURSIVE call_pointers(_, _, _, _, _, _, _, _, _)
call_pointers(E, S, C, Mr, names, current_method, lineno, mod, rk) ==
    IF names = <<>> THEN E
    ELSE LET p0 == Head(names)
             pointer == IF join_ns(p0, CLS_INIT) \in DOMAIN S THEN join_ns(p0, CLS_INIT)
                        ELSE p0
             rest == Tail(names)
         IN IF pointer \notin DOMAIN E.defs
            THEN call_pointers(E, S, C, Mr, rest, current_method, lineno, mod, rk)
            ELSE IF E.defs[pointer].def_type = EXT_DEF
            THEN call_pointers(create_ext_edge(E, current_method, pointer, <<pointer[1]>>,
                                               lineno, mod),
                               S, C, Mr, rest, current_method, lineno, mod, rk)
            ELSE IF E.defs[pointer].def_type = FUN_DEF
            THEN call_pointers([E EXCEPT !.G = add_edge(E.G, TRUE, current_method, TRUE,
                                                        pointer, lineno, mod, <<>>)],
                               S, C, Mr, rest, current_method, lineno, mod, rk)
            ELSE IF E.defs[pointer].def_type = CLS_DEF
            THEN LET r == find_cls_fun_ns(E, C, Mr, pointer, CLS_INIT, rk)
                 IN call_pointers([r.E EXCEPT !.G = init_edges(r.E.G, current_method,
                                                               SeqOfSet(r.names, rk),
                                                               lineno, mod)],
                                  S, C, Mr, rest, current_method, lineno, mod, rk)
            ELSE call_pointers(E, S, C, Mr, rest, current_method, lineno, mod, rk)

\* CallGraphProcessor.visit_Call(node) for a call without arguments
visit_Call(E, S, C, Mr, current_ns, current_method, func, lineno, mod, rk) ==
    LET r == call_names(E, S, C, Mr, current_ns, func, rk)
    IN IF r.names = {}
       THEN fail_safe(r.E, S, C, current_ns, current_method, func, lineno, mod, rk)
       ELSE call_pointers(r.E, S, C, Mr, SeqOfSet(r.names, rk), current_method, lineno,
                          mod, rk)

\* CallGraphProcessor.visit_Raise(node): the class body defines visit_Raise
\* twice and the second definition is the one the class keeps. exc is
\* [called, func]: raise E(...) is called, raise E is not. The method visits
\* no child of the node, so that the call E(...) never reaches visit_Call.
visit_Raise(Rs, G, current_ns, current_node_name, exc) ==
    IF exc.called /\ exc.func.t = "Name"
           /\ current_node_name # "None" /\ current_ns \in DOMAIN G.cg_extended
    THEN IF current_ns \in DOMAIN Rs
         THEN [Rs EXCEPT ![current_ns] = Rs[current_ns] \cup {exc.func.id}]
         ELSE Put(Rs, current_ns, {exc.func.id})
    ELSE Rs

(***************************************************************************)
(* postprocessor.py: visit_Call for a call without arguments, and          *)
(* update_parent_classes                                                   *)
(***************************************************************************)
\* update_parent_classes, the loop over the members of the class for one
\* parent; a member is [key, ns]: its name in the scope and its definition
RECURSIVE parent_members(_, _, _, _, _, _)
parent_members(E, C, Mr, parent, members, rk) ==
    IF members = <<>> THEN E
    ELSE LET key == Head(members).key
             child == Head(members).ns
         IN IF key = CLS_INIT THEN parent_members(E, C, Mr, parent, Tail(members), rk)
            ELSE LET r == find_cls_fun_ns(E, C, Mr, parent, key, rk)
                     new_ns == join_ns(parent, key)
                     c == ManagerCreate(r.E.defs, r.E.order, TRUE, new_ns, NAME_DEF)
                     D1 == IF new_ns \in DOMAIN r.E.defs THEN r.E.defs ELSE c.defs
                     O1 == IF new_ns \in DOMAIN r.E.defs THEN r.E.order ELSE c.order
                     old == D1[new_ns].name_pointer.values
                     D2 == [D1 EXCEPT ![new_ns].name_pointer.values =
                                          old \cup r.names \cup {child}]
                 IN parent_members([r.E EXCEPT !.defs = D2, !.order = O1], C, Mr, parent,
                                   Tail(members), rk)

\* the members of the scope of a class, in the order the class body defines
\* them (the order of its definitions in the store)
scope_members(S, O, cls) ==
    LET ds == S[cls].defs
        keyOf(ns) == CHOOSE k \in DOMAIN ds : ds[k] = ns
        nss == SeqOfSet({ds[k] : k \in DOMAIN ds}, O)
    IN [i \in 1..Len(nss) |-> [key |-> keyOf(nss[i]), ns |-> nss[i]]]

RECURSIVE parent_classes_loop(_, _, _, _, _, _, _)
parent_classes_loop(E, S, C, Mr, cls, parents, rk) ==
    IF parents = <<>> THEN E
    ELSE LET parent == Head(parents)
         IN IF parent \notin DOMAIN E.defs \/ parent \notin DOMAIN S
            THEN parent_classes_loop(E, S, C, Mr, cls, Tail(parents), rk)
            ELSE parent_classes_loop(
                     parent_members(E, C, Mr, parent, scope_members(S, E.order, cls), rk),
                     S, C, Mr, cls, Tail(parents), rk)

\* update_parent_classes that visits the class itself and none of its parents
update_parent_classes_self_only(E, S, C, Mr, cls, rk) ==
    IF cls \notin DOMAIN Mr THEN E
    ELSE parent_classes_loop(E, S, C, Mr, cls, <<cls>>, rk)

\* PostProcessor.update_parent_classes(defi)
update_parent_classes(E, S, C, Mr, cls, rk) ==
    IF cls \notin DOMAIN Mr THEN E
    ELSE parent_classes_loop(E, S, C, Mr, cls, Mr[cls], rk)

RECURSIVE post_call_names(_, _, _, _, _, _)
post_call_names(E, S, C, Mr, names, rk) ==
    IF names = <<>> THEN E
    ELSE LET name == Head(names)
         IN IF name \in DOMAIN E.defs /\ E.defs[name].def_type = CLS_DEF
            THEN post_call_names(update_parent_classes(E, S, C, Mr, name, rk), S, C, Mr,
                                 Tail(names), rk)
            ELSE post_call_names(E, S, C, Mr, Tail(names), rk)

\* PostProcessor.visit_Call(node) for a call without arguments:
\* iterate_call_args finds nothing to bind
post_visit_Call(E, S, C, Mr, current_ns, func, rk) ==
    LET r == call_names(E, S, C, Mr, current_ns, func, rk)
    IN post_call_names(r.E, S, C, Mr, SeqOfSet(r.names, rk), rk)

(***************************************************************************)
(* SpecCall: the post pass and the emitter over module a,                  *)
(*     from ext import X; import ext; [X = X]                              *)
(*     class E: def __init__(self): pass                                   *)
(*     class P(X): pass                                                    *)
(*     def f(): <body>                                                     *)
(* the body being calls without arguments and raise statements.            *)
(***************************************************************************)
MaxStmts == 2     \* statements in the body of f

ClsE == <<"a", "E">>
ClsP == <<"a", "P">>
InitE == <<"a", "E", "__init__">>
FnF == <<"a", "f">>
ExtX == <<"ext", "X">>
ExtMod == <<"ext">>
AliasX == <<"a", "X">>
AliasExt == <<"a", "ext">>

\* the statements of the body: [kind, ns, id, func, called]
CallStmt(func) == [kind |-> "Call", ns |-> FnF, id |-> "", func |-> func, called |-> TRUE]
RaiseStmt(func, called) ==
    [kind |-> "Raise", ns |-> FnF, id |-> "", func |-> func, called |-> called]
DefNode(kind, ns, id) ==
    [kind |-> kind, ns |-> ns, id |-> id, func |-> NameNode(""), called |-> FALSE]

Stmts ==
    {CallStmt(NameNode(id)) : id \in {"f", "h", "print", "X", "E", "P"}}
        \cup {CallStmt(AttributeNode("x", "y")), CallStmt(AttributeNode("self", "m")),
              CallStmt(AttributeNode("ext", "y")), CallStmt(AttributeNode("ext", "ext"))}
        \cup {RaiseStmt(NameNode("E"), TRUE), RaiseStmt(NameNode("E"), FALSE),
              RaiseStmt(NameNode("X"), TRUE), RaiseStmt(NameNode("P"), TRUE)}

\* the definition a visit of an import or of an argument creates, and the
\* names its pointer is given
PreCreate(r, ns, def_type, vals) ==
    LET c == ManagerCreate(r.defs, r.order, TRUE, ns, def_type)
    IN [c EXCEPT !.defs[ns].name_pointer.values = vals]

\* the store the pre pass leaves for the module; every step works on the
\* store the step before it has left
PreStore(alias) ==
    LET s1 == {PreProcessorVisitModule(EmptyMap, <<>>, ModA, <<InitE, FnF>>,
                                       <<ClsE, ClsP>>, <<>>)}
        s2 == {PreCreate(r, ExtX, EXT_DEF, {}) : r \in s1}
        s3 == {PreCreate(r, AliasX, EXT_DEF, IF alias THEN {ExtX, AliasX} ELSE {ExtX}) :
                   r \in s2}
        s4 == {PreCreate(r, ExtMod, EXT_DEF, {}) : r \in s3}
        s5 == {PreCreate(r, AliasExt, EXT_DEF, {ExtMod}) : r \in s4}
        s6 == {VisitFunctionDefs(r.defs, r.order, <<InitE>>) : r \in s5}
        s7 == {PreCreate(r, join_ns(InitE, "self"), NAME_DEF, {ClsE}) : r \in s6}
        s8 == {VisitFunctionDefs(r.defs, r.order, <<FnF>>) : r \in s7}
    IN CHOOSE r \in s8 : TRUE

\* the scopes the pre pass leaves
PreScopes ==
    LET sc(parent, ds) == [parent |-> parent, defs |-> ds]
        top == Put(Put(Put(Put(Put(Put(EmptyMap, "a", ModA), "f", FnF), "E", ClsE),
                           "P", ClsP), "X", AliasX), "ext", AliasExt)
    IN Put(Put(Put(Put(Put(EmptyMap, ModA, sc(<<>>, top)),
                           ClsE, sc(ModA, Put(EmptyMap, "__init__", InitE))),
                       InitE, sc(ClsE, Put(EmptyMap, "self", join_ns(InitE, "self")))),
                   ClsP, sc(ModA, EmptyMap)),
               FnF, sc(ModA, EmptyMap))

\* the internal module record the pre pass leaves
PreModules ==
    LET m(ns, fst, lst) == [name |-> ns, first |-> fst, last |-> lst]
        methods == Put(Put(Put(Put(Put(EmptyMap, ModA, m(ModA, 1, 9)), ClsE, m(ClsE, 3, 5)),
                               InitE, m(InitE, 4, 5)), ClsP, m(ClsP, 6, 7)),
                       FnF, m(FnF, 8, 9))
    IN [NewModuleManager EXCEPT
           !.internal = Put(EmptyMap, ModA,
                            [NewModule(ModA, "a.py") EXCEPT !.methods = methods])]

\* the namespaces a visit can create, after the definitions of the store, in
\* one order and in the opposite order
CallRanks ==
    LET base == PreStore(FALSE).order
                    \o <<join_ns(ExtMod, "y"), join_ns(ExtX, "__init__"),
                         join_ns(AliasX, "__init__")>>
    IN {base, Reverse(base)}

\* the nodes of a pass that change the state that is modelled here
PostNodes(body) ==
    <<DefNode("ClassDef", ModA, "E"), DefNode("ClassDef", ModA, "P")>> \o body

EmitNodes(body) ==
    <<DefNode("Module", <<>>, "a"), DefNode("FunctionDef", ClsE, "__init__"),
      DefNode("FunctionDef", ModA, "f")>> \o body

CallLineno == 1 + Len(prog.body) - Len(todo)

InitCall ==
    /\ \E alias \in BOOLEAN :
           /\ \E r \in {PreStore(alias)} : defs = r.defs /\ order = r.order
           /\ \E body \in SeqsUpTo(Stmts, MaxStmts) : prog = [alias |-> alias, body |-> body]
    /\ rank \in CallRanks
    /\ scopes = PreScopes /\ todo = <<>> /\ snap = NoSnap
    /\ err = NoErr /\ last = [op |-> "PreProcessor.analyze", ret |-> ModA]
    /\ closured = EmptyMap /\ pc = "call_post_init"
    /\ mro = Put(Put(EmptyMap, ClsE, <<ClsE>>), ClsP, <<ClsP>>) /\ exited = FALSE
    /\ InitCg /\ InitImp
    /\ mm = PreModules /\ raises = EmptyMap

TheEmitter == Emitter(TheGraph, defs, order, mm)

\* what a visit leaves
CallStep(E, op) ==
    /\ cg' = E.G.cg /\ cg_extended' = E.G.cg_extended /\ modnames' = E.G.modnames
    /\ err' = E.G.err
    /\ defs' = E.defs /\ order' = E.order /\ mm' = E.mm
    /\ todo' = Tail(todo)
    /\ pc' = IF Len(todo) > 1 THEN pc
             ELSE IF pc = "call_post" THEN "call_solve" ELSE "call_done"
    /\ last' = [op |-> op, ret |-> Head(todo).ns]
    /\ UNCHANGED <<closured, rank, snap, prog, scopes, im, sys>>

\* PostProcessor.__init__, and analyze about to visit the tree
CallPostInit ==
    /\ pc = "call_post_init"
    /\ closured' = transitive_closure(defs, order, rank)
    /\ todo' = PostNodes(prog.body)
    /\ pc' = "call_post"
    /\ last' = [op |-> "PostProcessor.__init__", ret |-> ModA]
    /\ UNCHANGED <<defs, order, err, rank, snap, prog, scopes, impVars, modVars, mroVars,
                   cgVars>>

\* PostProcessor.visit_ClassDef: the bases of P resolve to what a.X points to
CallPostClassDef ==
    /\ pc = "call_post" /\ Head(todo).kind = "ClassDef"
    /\ LET c == join_ns(Head(todo).ns, Head(todo).id)
           names == IF c = ClsP
                    THEN SeqOfSet(IF defs[AliasX].name_pointer.values # {}
                                  THEN defs[AliasX].name_pointer.values ELSE {AliasX}, rank)
                    ELSE <<>>
           r == PostProcessorVisitClassDef(mro, c, names)
       IN mro' = [mro EXCEPT ![c] = r.mro] /\ exited' = r.exit
    /\ CallStep(TheEmitter, "PostProcessor.visit_ClassDef")
    /\ UNCHANGED <<run, raises>>

\* PostProcessor.visit_Call; a raise statement is visited generically, which
\* visits the call of raise E(...)
CallPostVisitCall ==
    /\ pc = "call_post" /\ Head(todo).kind \in {"Call", "Raise"}
    /\ CallStep(IF Head(todo).called
                THEN post_visit_Call(TheEmitter, scopes, closured, mro, Head(todo).ns,
                                     Head(todo).func, rank)
                ELSE TheEmitter, "PostProcessor.visit_Call")
    /\ UNCHANGED <<run, raises, mroVars>>

\* the driver's complete_definitions() after the post pass
CallSolve ==
    /\ pc = "call_solve"
    /\ defs' = complete_definitions(defs, order, rank)
    /\ pc' = "call_cg_init"
    /\ last' = [op |-> "complete_definitions", ret |-> <<>>]
    /\ UNCHANGED <<order, err, closured, runVars, mroVars, cgVars>>

\* CallGraphProcessor.__init__, and analyze about to visit the tree
CallEmitInit ==
    /\ pc = "call_cg_init"
    /\ closured' = transitive_closure(defs, order, rank)
    /\ todo' = EmitNodes(prog.body)
    /\ run' = [NoRun EXCEPT !.ev = [kind |-> "emit", current_node_name |-> "None"]]
    /\ pc' = "call_emit"
    /\ last' = [op |-> "CallGraphProcessor.__init__", ret |-> ModA]
    /\ UNCHANGED <<defs, order, err, rank, snap, prog, scopes, im, sys, modVars, mroVars,
                   cgVars>>

\* CallGraphProcessor.visit_Module
CallEmitModule ==
    /\ pc = "call_emit" /\ Head(todo).kind = "Module"
    /\ CallStep([TheEmitter EXCEPT !.G = add_node(TheGraph, TRUE, ModA, ModA)], "visit_Module")
    /\ UNCHANGED <<run, raises, mroVars>>

\* CallGraphProcessor.visit_FunctionDef of a function without decorators
CallEmitFunctionDef ==
    /\ pc = "call_emit" /\ Head(todo).kind = "FunctionDef"
    /\ CallStep([TheEmitter EXCEPT
                    !.G = add_node(TheGraph, TRUE, join_ns(Head(todo).ns, Head(todo).id),
                                   ModA)], "visit_FunctionDef")
    /\ run' = [run EXCEPT !.ev.current_node_name = Head(todo).id]
    /\ UNCHANGED <<raises, mroVars>>

\* CallGraphProcessor.visit_Call
CallEmitCall ==
    /\ pc = "call_emit" /\ Head(todo).kind = "Call"
    /\ CallStep(visit_Call(TheEmitter, scopes, closured, mro, Head(todo).ns, Head(todo).ns,
                           Head(todo).func, CallLineno, ModA, rank), "visit_Call")
    /\ UNCHANGED <<run, raises, mroVars>>

\* CallGraphProcessor.visit_Raise
CallEmitRaise ==
    /\ pc = "call_emit" /\ Head(todo).kind = "Raise"
    /\ raises' = visit_Raise(raises, TheGraph, Head(todo).ns, run.ev.current_node_name,
                             [called |-> Head(todo).called, func |-> Head(todo).func])
    /\ CallStep(TheEmitter, "visit_Raise")
    /\ UNCHANGED <<run, mroVars>>

NextCall ==
    \/ CallPostInit
    \/ CallPostClassDef
    \/ CallPostVisitCall
    \/ CallSolve
    \/ CallEmitInit
    \/ CallEmitModule
    \/ CallEmitFunctionDef
    \/ CallEmitCall
    \/ CallEmitRaise

SpecCall == InitCall /\ [][NextCall]_vars

(***************************************************************************)
(* The synthetic names of anonymous objects. The body of module a is a     *)
(* sequence of statements, each holding one anonymous object: the value of *)
(* an assignment, the default of a parameter of a function definition, or  *)
(* the argument of a call. A pass names an object at every visit of it,    *)
(* from the counter of the scope for objects of its kind.                  *)
(***************************************************************************)
MaxBody == 2       \* statements in the body of the module
MaxCallees == 2    \* names a call resolves to

ObjKinds == {"lambda", "dict", "list"}
Passes == <<"pre", "post", "cg">>

\* utils.get_lambda_name, get_dict_name, get_list_name: "<kindN>"
get_name(kind, counter) == <<kind, counter>>

\* ScopeItem.reset_counters
reset_counters == [k \in ObjKinds |-> 0]

\* [t, obj, func, defined, callees]: for a call, whether node.func is a name
\* or an attribute, whether the scope defines the name, and the number of
\* names, each with a function definition, the closure gives for it
AssignStmt(obj) ==
    [t |-> "Assign", obj |-> obj, func |-> "Name", defined |-> FALSE, callees |-> 0]
DefaultStmt(obj) ==
    [t |-> "FunctionDef", obj |-> obj, func |-> "Name", defined |-> FALSE, callees |-> 0]
ArgStmt(obj, func, defined, callees) ==
    [t |-> "Call", obj |-> obj, func |-> func, defined |-> defined, callees |-> callees]

NameStmts ==
    UNION {{AssignStmt(k), DefaultStmt(k), ArgStmt(k, "Name", FALSE, 0)}
               \cup {ArgStmt(k, "Name", TRUE, n) : n \in 1..MaxCallees}
               \cup {ArgStmt(k, "Attribute", FALSE, n) : n \in 0..MaxCallees} : k \in ObjKinds}

\* PreProcessor.visit_Call: the visits of an argument; a call of anything
\* but a name the scope defines returns before iterate_call_args
pre_arg_visits(s) == IF s.func = "Name" /\ s.defined THEN 1 ELSE 0

\* PostProcessor.visit_Call: iterate_call_args runs for every resolved name
post_arg_visits(s) == s.callees

\* CallGraphProcessor.visit_Call: "for arg in node.args: self.visit(arg)"
cg_arg_visits(s) == 1

\* the visits pass p makes of the object of statement s: _visit_assign and
\* the generic visit reach the value of an assignment once; only
\* PreProcessor._get_fun_defaults visits the default of a parameter
visits(p, s) ==
    IF s.t = "Assign" THEN 1
    ELSE IF s.t = "FunctionDef" THEN (IF p = "pre" THEN 1 ELSE 0)
    ELSE IF p = "pre" THEN pre_arg_visits(s)
    ELSE IF p = "post" THEN post_arg_visits(s)
    ELSE cg_arg_visits(s)

\* visit_Lambda / visit_Dict / visit_List n times in a row: inc_*_counter,
\* then the name from the counter; v is [counters, names]
RECURSIVE visit_object(_, _, _)
visit_object(v, kind, n) ==
    IF n = 0 THEN v
    ELSE LET c == v.counters[kind] + 1
         IN visit_object([counters |-> [v.counters EXCEPT ![kind] = c],
                          names |-> v.names \cup {get_name(kind, c)}], kind, n - 1)

InitNames ==
    /\ InitStoreIdle /\ pc = "names" /\ InitMro /\ InitCg
    /\ rank = NoRank /\ snap = NoSnap /\ scopes = EmptyMap /\ todo = <<>>
    /\ prog \in SeqsUpTo(NameStmts, MaxBody)
    /\ InitImp /\ InitMods

\* run.ev of this specification: the pass that is running, the counters of
\* the scope of the module, and names[p][i], the names pass p gave the object
\* of statement i
NamesEv(p, counters, names) ==
    [kind |-> "names", pass |-> p, counters |-> counters, names |-> names]

NamesStep(ev, td, op) ==
    /\ run' = [run EXCEPT !.ev = ev]
    /\ todo' = td
    /\ last' = [op |-> op, ret |-> <<>>]
    /\ UNCHANGED <<defs, order, err, closured, pc, mroVars, cgVars, rank, snap, prog, scopes,
                   im, sys, modVars>>

\* the next pass begins: visit_Module resets the counters of the scope
NamesVisitModule ==
    /\ pc = "names" /\ todo = <<>>
    /\ \E i \in 1..Len(Passes) :
           /\ IF i = 1 THEN run.ev.kind = "none"
              ELSE run.ev.kind = "names" /\ run.ev.pass = Passes[i - 1]
           /\ NamesStep(NamesEv(Passes[i], reset_counters,
                                IF i = 1
                                THEN [p \in {"pre", "post", "cg"} |->
                                         [j \in 1..Len(prog) |-> {}]]
                                ELSE run.ev.names),
                        [j \in 1..Len(prog) |-> j], "visit_Module")

\* the pass visits statement i and names its object at every visit
NamesVisit(t, op) ==
    /\ pc = "names" /\ todo # <<>> /\ prog[Head(todo)].t = t
    /\ LET i == Head(todo)
           s == prog[i]
           p == run.ev.pass
           v == visit_object([counters |-> run.ev.counters, names |-> {}], s.obj,
                             visits(p, s))
       IN NamesStep(NamesEv(p, v.counters, [run.ev.names EXCEPT ![p][i] = v.names]),
                    Tail(todo), op)

\* visit_Assign
NamesVisitAssign == NamesVisit("Assign", "visit_Assign")

\* visit_FunctionDef of a function whose parameter has a default
NamesVisitFunctionDef == NamesVisit("FunctionDef", "visit_FunctionDef")

\* visit_Call of a call with one argument
NamesVisitCall == NamesVisit("Call", "visit_Call")

NextNames ==
    \/ NamesVisitModule
    \/ NamesVisitAssign
    \/ NamesVisitFunctionDef
    \/ NamesVisitCall

SpecNames == InitNames /\ [][NextNames]_vars

(***************************************************************************)
(* SpecInherit: the post pass over module a,                               *)
(*     class B: <methods of B>                                             *)
(*     class C(B): <methods of C>                                          *)
(*     <calls B() and C()>                                                 *)
(* every method being def name(self): pass.                                *)
(***************************************************************************)
MaxInst == 2      \* calls in the body of the module

ClsC == <<"a", "C">>
MethodNames == <<"k", "m", "n">>

\* the methods a class can declare: B some of m and n, C some of m and k
MethodsOf(c) == IF c = ClsB THEN {"m", "n"} ELSE {"k", "m"}

\* the methods of class c in the order of the class body
Declared(c, keys) ==
    LET ks == SeqOfSet(keys, MethodNames)
    IN [i \in 1..Len(ks) |-> join_ns(c, ks[i])]

\* the definitions of self that _handle_function_def makes for the methods
RECURSIVE SelfDefs(_, _, _)
SelfDefs(D, O, methods) ==
    IF methods = <<>> THEN Result(D, O, NoErr, <<>>)
    ELSE LET f == Head(methods)
             r1 == ManagerHandleFunctionDef(D, O, SubSeq(f, 1, Len(f) - 1), f[Len(f)])
             arg_ns == join_ns(f, "self")
             r2 == ManagerCreate(r1.defs, r1.order, TRUE, arg_ns, NAME_DEF)
             D2 == [r2.defs EXCEPT ![arg_ns].name_pointer.values =
                                       {SubSeq(f, 1, Len(f) - 1)}]
         IN SelfDefs(D2, r2.order, Tail(methods))

\* the store the pre pass leaves for the module
InheritStore(bKeys, cKeys) ==
    LET methods == Declared(ClsB, bKeys) \o Declared(ClsC, cKeys)
        r == PreProcessorVisitModule(EmptyMap, <<>>, ModA, methods, <<ClsB, ClsC>>, <<>>)
    IN SelfDefs(r.defs, r.order, methods)

\* the scopes the pre pass leaves
InheritScopes(bKeys, cKeys) ==
    LET sc(parent, ds) == [parent |-> parent, defs |-> ds]
        members(c, keys) == [k \in keys |-> join_ns(c, k)]
        top == Put(Put(Put(EmptyMap, "a", ModA), "B", ClsB), "C", ClsC)
        fns == {join_ns(ClsB, k) : k \in bKeys} \cup {join_ns(ClsC, k) : k \in cKeys}
    IN [ns \in {ModA, ClsB, ClsC} \cup fns |->
           IF ns = ModA THEN sc(<<>>, top)
           ELSE IF ns = ClsB THEN sc(ModA, members(ClsB, bKeys))
           ELSE IF ns = ClsC THEN sc(ModA, members(ClsC, cKeys))
           ELSE sc(SubSeq(ns, 1, 2), Put(EmptyMap, "self", join_ns(ns, "self")))]

\* the nodes of the post pass that change the state that is modelled here
InheritNodes(body) ==
    <<DefNode("ClassDef", ModA, "B"), DefNode("ClassDef", ModA, "C")>>
        \o [i \in 1..Len(body) |->
               [kind |-> "Call", ns |-> ModA, id |-> "", func |-> NameNode(body[i]),
                called |-> TRUE]]

\* the order in which this run iterates a set of namespaces: the order of the
\* store, the names the pass makes after it
InheritRank(O) ==
    O \o SeqOfSet({join_ns(c, k) : c \in {ClsB, ClsC}, k \in {"k", "m", "n"}} \
                      {O[i] : i \in 1..Len(O)},
                  [i \in 1..6 |-> join_ns(IF i <= 3 THEN ClsB ELSE ClsC,
                                          MethodNames[((i - 1) % 3) + 1])])

InitInherit ==
    /\ \E bKeys \in SUBSET MethodsOf(ClsB), cKeys \in SUBSET MethodsOf(ClsC) :
           /\ LET r == InheritStore(bKeys, cKeys)
              IN defs = r.defs /\ order = r.order /\ rank = InheritRank(r.order)
           /\ scopes = InheritScopes(bKeys, cKeys)
    /\ prog \in SeqsUpTo({"B", "C"}, MaxInst)
    /\ todo = <<>> /\ snap = NoSnap /\ err = NoErr
    /\ last = [op |-> "PreProcessor.analyze", ret |-> ModA]
    /\ closured = EmptyMap /\ pc = "inherit_init"
    /\ mro = Put(Put(EmptyMap, ClsB, <<ClsB>>), ClsC, <<ClsC>>) /\ exited = FALSE
    /\ InitCg /\ InitImp /\ InitMods

\* PostProcessor.__init__, and analyze about to visit the tree
InheritPostInit ==
    /\ pc = "inherit_init"
    /\ closured' = transitive_closure(defs, order, rank)
    /\ todo' = InheritNodes(prog)
    /\ pc' = "inherit_post"
    /\ last' = [op |-> "PostProcessor.__init__", ret |-> ModA]
    /\ UNCHANGED <<defs, order, err, rank, snap, prog, scopes, impVars, modVars, mroVars,
                   cgVars>>

InheritStep(E, op) ==
    /\ defs' = E.defs /\ order' = E.order /\ mm' = E.mm
    /\ todo' = Tail(todo)
    /\ pc' = IF Len(todo) > 1 THEN pc ELSE "inherit_done"
    /\ last' = [op |-> op, ret |-> Head(todo).ns]
    /\ UNCHANGED <<err, closured, rank, snap, prog, scopes, impVars, raises, cgVars>>

\* PostProcessor.visit_ClassDef: the base of C resolves to a.B
InheritVisitClassDef ==
    /\ pc = "inherit_post" /\ Head(todo).kind = "ClassDef"
    /\ LET c == join_ns(Head(todo).ns, Head(todo).id)
           r == PostProcessorVisitClassDef(mro, c, IF c = ClsC THEN <<ClsB>> ELSE <<>>)
       IN mro' = [mro EXCEPT ![c] = r.mro] /\ exited' = r.exit
    /\ InheritStep(TheEmitter, "PostProcessor.visit_ClassDef")

\* PostProcessor.visit_Call of B() or C()
InheritVisitCall ==
    /\ pc = "inherit_post" /\ Head(todo).kind = "Call"
    /\ InheritStep(post_visit_Call(TheEmitter, scopes, closured, mro, Head(todo).ns,
                                   Head(todo).func, rank), "PostProcessor.visit_Call")
    /\ UNCHANGED mroVars

NextInherit ==
    \/ InheritPostInit
    \/ InheritVisitClassDef
    \/ InheritVisitCall

SpecInherit == InitInherit /\ [][NextInherit]_vars

(***************************************************************************)
(* SpecDfs: transitive_closure statement by statement, on the stores of    *)
(* the family of SpecTC. run.loop is what the loop over self.defs has      *)
(* still to visit, run.stack the calls of dfs that are on the Python stack *)
(* (for each its definition and the names its loop has still to visit,     *)
(* the first of them being the one whose dfs is running), and run.bodies   *)
(* counts, for every namespace, the calls of dfs that went past the test   *)
(* of line 96.                                                             *)
(***************************************************************************)
TcOrder == <<DefA, DefB, DefC>>
TcRank == <<DefA, DefB, DefC, Missing>>

InitDfs ==
    /\ \E v \in [TcNames -> SubsetsUpTo(TcNames \cup {Missing}, MaxValues)] :
           defs = [n \in TcNames |-> NameDef(n, v[n])]
    /\ order = TcOrder
    /\ rank \in {TcRank, Reverse(TcRank)}
    /\ snap = NoSnap /\ InitAst /\ InitMods
    /\ im = NewImportManager /\ sys = HostSys
    /\ run = [pass |-> "closure", loop |-> <<>>, stack |-> <<>>,
              bodies |-> [n \in TcNames |-> 0]]
    /\ err = NoErr /\ last = [op |-> "init", ret |-> <<>>]
    /\ closured = EmptyMap /\ pc = "dfs_init"
    /\ InitMro /\ InitCg

\* dfs with its test of line 96 taken out
memoized_never(C, ns) == FALSE

\* "if defi.fullns in closured" of dfs
memoized(C, ns) == ns \in DOMAIN C

\* "items = dfs(self.defs[name]); if not items: items = {name};
\* new_set.update(items)" once dfs has returned closured[name], in the call
\* of dfs at the top of the stack
dfs_update(R, C, name) ==
    LET top == R.stack[Len(R.stack)]
        items == IF C[name] = {} THEN {name} ELSE C[name]
    IN [run |-> [R EXCEPT !.stack[Len(R.stack)].names = Tail(top.names)],
        closured |-> [C EXCEPT ![top.ns] = C[top.ns] \cup items]]

\* the call dfs(self.defs[ns]) up to its loop, or to its return of line 97
dfs_call(R, C, ns, rk) ==
    IF memoized(C, ns)
    THEN IF R.stack = <<>> THEN [run |-> R, closured |-> C] ELSE dfs_update(R, C, ns)
    ELSE LET new_set == IF defs[ns].name_pointer.values = {} THEN {ns} ELSE {}
             frame == [ns |-> ns, names |-> SeqOfSet(defs[ns].name_pointer.values, rk)]
         IN [run |-> [R EXCEPT !.stack = Append(R.stack, frame),
                               !.bodies[ns] = R.bodies[ns] + 1],
             closured |-> Put(C, ns, new_set)]

DfsStep(r, op, ret) ==
    /\ run' = r.run /\ closured' = r.closured
    /\ last' = [op |-> op, ret |-> ret]
    /\ UNCHANGED <<defs, order, err, pc, rank, snap, astVars, im, sys, modVars, mroVars,
                   cgVars>>

\* transitive_closure up to its loop over the definitions
ClosureBegin ==
    /\ pc = "dfs_init"
    /\ pc' = "dfs_loop"
    /\ run' = [run EXCEPT !.loop = order]
    /\ closured' = EmptyMap
    /\ last' = [op |-> "transitive_closure", ret |-> <<>>]
    /\ UNCHANGED <<defs, order, err, rank, snap, astVars, im, sys, modVars, mroVars, cgVars>>

\* one iteration of "for current_def in self.defs.values()", up to the loop
\* of the dfs it calls
ClosureLoop ==
    /\ pc = "dfs_loop" /\ run.stack = <<>> /\ run.loop # <<>>
    /\ LET current_def == Head(run.loop)
           R == [run EXCEPT !.loop = Tail(run.loop)]
       IN DfsStep(IF current_def \notin DOMAIN closured
                  THEN dfs_call(R, closured, current_def, rank)
                  ELSE [run |-> R, closured |-> closured],
                  "transitive_closure.loop", current_def)

\* one iteration of "for name in name_pointer.values", up to the loop of the
\* dfs it calls
DfsIterate ==
    /\ pc = "dfs_loop" /\ run.stack # <<>> /\ run.stack[Len(run.stack)].names # <<>>
    /\ LET top == run.stack[Len(run.stack)]
           name == Head(top.names)
       IN DfsStep(IF name \notin DOMAIN defs
                  THEN [run |-> [run EXCEPT !.stack[Len(run.stack)].names = Tail(top.names)],
                        closured |-> closured]
                  ELSE dfs_call(run, closured, name, rank),
                  "dfs.loop", name)

\* "return new_set", and what the caller does with it
DfsReturn ==
    /\ pc = "dfs_loop" /\ run.stack # <<>> /\ run.stack[Len(run.stack)].names = <<>>
    /\ LET top == run.stack[Len(run.stack)]
           R == [run EXCEPT !.stack = SubSeq(run.stack, 1, Len(run.stack) - 1)]
       IN DfsStep(IF R.stack = <<>> THEN [run |-> R, closured |-> closured]
                  ELSE dfs_update(R, closured, top.ns),
                  "dfs.return", top.ns)

\* "return closured"
ClosureEnd ==
    /\ pc = "dfs_loop" /\ run.stack = <<>> /\ run.loop = <<>>
    /\ pc' = "dfs_closed"
    /\ last' = [op |-> "transitive_closure.return", ret |-> <<>>]
    /\ UNCHANGED <<defs, order, err, closured, runVars, mroVars, cgVars>>

NextDfs ==
    \/ ClosureBegin
    \/ ClosureLoop
    \/ DfsIterate
    \/ DfsReturn
    \/ ClosureEnd

\* the interpreter runs transitive_closure without interruption
SpecDfs == InitDfs /\ [][NextDfs]_vars /\ WF_vars(NextDfs)

(***************************************************************************)
(* SpecCDU: complete_definitions on stores that mention names they do not  *)
(* hold. The store holds three name definitions; the name pointers of a    *)
(* and b hold any of the three, and a namespace the store lacks; they have *)
(* no argument or one argument "x" (keyword, or positional at ArgPos)      *)
(* holding at most MaxArg of the three definitions, the missing namespace  *)
(* and a literal tag. c points to nothing or to the missing namespace.     *)
(***************************************************************************)
\* LiteralPointer.STR_LIT, as add_lit_arg leaves it in an argument set
STR_LIT == <<"STRING">>
UnknownNames == {Missing, STR_LIT}

UnknownPointers ==
    LET vals == SUBSET {DefA, DefB, Missing}
        argsets == SubsetsUpTo(TcNames \cup UnknownNames, MaxArg) \ {{}}
        base(v) == [NewNamePointer EXCEPT !.values = v]
    IN {base(v) : v \in vals}
       \cup {AddArg(base(v), "x", a) : v \in vals, a \in argsets}
       \cup {AddPosArg(base(v), ArgPos, "x", a) : v \in vals, a \in argsets}

UnknownRank == <<DefA, DefB, DefC, Missing, STR_LIT>>

InitCDU ==
    /\ \E pa \in UnknownPointers, pb \in UnknownPointers, vc \in {{}, {Missing}} :
          defs = [n \in TcNames |->
                     IF n = DefC THEN NameDef(n, vc)
                     ELSE [NewDefinition(n, NAME_DEF) EXCEPT
                              !.name_pointer = IF n = DefA THEN pa ELSE pb]]
    /\ order = TcOrder
    /\ rank \in {UnknownRank, Reverse(UnknownRank)}
    /\ snap = NoSnap /\ InitAst /\ InitImp /\ InitMods
    /\ err = NoErr /\ last = [op |-> "init", ret |-> <<>>]
    /\ closured = EmptyMap /\ pc = "cdu"
    /\ InitMro /\ InitCg

\* self.def_manager.complete_definitions()
CompleteUnknown ==
    /\ pc = "cdu"
    /\ snap' = [defs |-> defs, order |-> order]
    /\ \E r \in {complete_definitions_result(defs, order, rank)} :
           defs' = r.defs /\ err' = r.err
    /\ pc' = "cdu_done"
    /\ last' = [op |-> "complete_definitions", ret |-> <<>>]
    /\ UNCHANGED <<order, closured, rank, astVars, impVars, modVars, mroVars, cgVars>>

NextCDU == CompleteUnknown

SpecCDU == InitCDU /\ [][NextCDU]_vars

(***************************************************************************)
(* imports.py: handle_import. A module name is the sequence of its         *)
(* components; a name handed to importlib is [dots, name], dots being the  *)
(* number of leading dots of the string and name the components after      *)
(* them ("..x" is [dots |-> 2, name |-> <<"x">>], "." is [dots |-> 1,      *)
(* name |-> <<>>], "p." is [dots |-> 0, name |-> <<"p", "">>]).            *)
(***************************************************************************)
ImportError == "ImportError"
\* sys.builtin_module_names
BuiltinModules == {"sys"}

\* ImportManager._is_init_file()
is_init_file(I) ==
    I.input_file.path # <<>> /\ I.input_file.path[Len(I.input_file.path)] = "__init__.py"

\* _handle_import_level that strips level components in an initializer too
handle_import_level_no_init(I, name, level) ==
    LET package == I.current_module
    IN IF level > Len(package)
       THEN [err |-> ImportError, mod_name |-> [dots |-> 0, name |-> <<>>], package |-> <<>>]
       ELSE [err |-> NoErr, mod_name |-> [dots |-> level, name |-> name],
             package |-> SubSeq(package, 1, Len(package) - level)]

\* ImportManager._handle_import_level(name, level); package[:-0] is empty
handle_import_level(I, name, level) ==
    LET package == I.current_module
    IN IF level > Len(package)
       THEN [err |-> ImportError, mod_name |-> [dots |-> 0, name |-> <<>>], package |-> <<>>]
       ELSE [err |-> NoErr, mod_name |-> [dots |-> level, name |-> name],
             package |-> IF is_init_file(I) /\ level >= 1
                         THEN IF level # 1
                              THEN SubSeq(package, 1, Len(package) - (level - 1))
                              ELSE package
                         ELSE IF level = 0 THEN <<>>
                         ELSE SubSeq(package, 1, Len(package) - level)]

\* importlib.import_module(name, package) up to the absolute name: a
\* relative name needs a package that has at least as many components as
\* the name has dots
resolve_name(mn, pkg) ==
    IF mn.dots = 0
    THEN [ok |-> mn.name # <<>>, name |-> mn.name]
    ELSE IF pkg = <<>> \/ Len(pkg) < mn.dots THEN [ok |-> FALSE, name |-> <<>>]
    ELSE [ok |-> TRUE, name |-> SubSeq(pkg, 1, Len(pkg) - (mn.dots - 1)) \o mn.name]

\* the file of a module of the package root, and of one outside it
FileOfModule(S, n) ==
    [abs |-> TRUE,
     path |-> (IF n \in S.outside THEN <<"site">> ELSE <<"work", MOD_DIR>>)
                  \o n \o (IF n \in S.packages THEN <<"__init__.py">> ELSE <<>>)]

\* importlib's import of the absolute name n, from its k-th component on:
\* the parents first, each loaded by the first path hook unless sys.modules
\* has it; a component the host does not find ends the import with
\* ModuleNotFoundError
RECURSIVE import_chain(_, _, _, _)
import_chain(I, S, n, k) ==
    IF k > Len(n) THEN [ok |-> TRUE, im |-> I, sys |-> S]
    ELSE LET prefix == SubSeq(n, 1, k)
         IN IF prefix \in S.modules THEN import_chain(I, S, n, k + 1)
            ELSE IF prefix \notin S.found THEN [ok |-> FALSE, im |-> I, sys |-> S]
            ELSE import_chain(IF Head(S.path_hooks) = LoaderHook
                              THEN CustomLoader(I, prefix, FileOfModule(S, prefix)) ELSE I,
                              [S EXCEPT !.modules = @ \cup {prefix}], n, k + 1)

\* ImportManager._do_import(mod_name, package), for any name: what it leaves,
\* and whether it returned a module (mod is its absolute name)
do_import_named(I, S, mn, pkg) ==
    IF mn.dots = 0 /\ mn.name \in S.modules
    THEN [ok |-> TRUE, im |-> create_edge(I, mn.name), sys |-> S, mod |-> mn.name]
    ELSE LET r == resolve_name(mn, pkg)
         IN IF ~r.ok THEN [ok |-> FALSE, im |-> I, sys |-> S, mod |-> <<>>]
            ELSE LET c == import_chain(I, S, r.name, 1)
                 IN [ok |-> c.ok, im |-> c.im, sys |-> c.sys, mod |-> r.name]

\* "for mn, pkg in combos: try: mod = self._do_import(mn, pkg); break"
RECURSIVE try_combos(_, _, _)
try_combos(I, S, combos) ==
    IF combos = <<>> THEN [ok |-> FALSE, im |-> I, sys |-> S, mod |-> <<>>]
    ELSE LET r == {do_import_named(I, S, Head(combos).mn, Head(combos).pkg)}
         IN CHOOSE t \in {IF x.ok THEN x ELSE try_combos(x.im, x.sys, Tail(combos)) : x \in r} :
                TRUE

\* ".".join(s.split(".")[:-1]) of the name [dots, name]
parent_of(mn) ==
    IF Len(mn.name) >= 2 THEN [dots |-> mn.dots, name |-> SubSeq(mn.name, 1, Len(mn.name) - 1)]
    ELSE IF mn.name = <<>> THEN [dots |-> IF mn.dots >= 2 THEN mn.dots - 2 ELSE 0, name |-> <<>>]
    ELSE [dots |-> IF mn.dots >= 1 THEN mn.dots - 1 ELSE 0, name |-> <<>>]

\* utils.join_ns(package, s) of a package and the string of components s:
\* an empty package leaves a leading dot, an empty s a trailing one
join_package(package, s) ==
    IF package = <<>> THEN [dots |-> 1, name |-> s]
    ELSE [dots |-> 0, name |-> package \o (IF s = <<>> THEN <<"">> ELSE s)]

\* ImportManager.handle_import(name, level): the manager and the host it
\* leaves, what it returns (<<>> for None), and what _handle_import_level
\* gave it
handle_import(I, S, name, level) ==
    LET none == [err |-> NoErr, mod_name |-> [dots |-> 0, name |-> <<>>], package |-> <<>>]
    IN IF name[1] \in BuiltinModules
       THEN [im |-> create_edge(I, <<name[1]>>), sys |-> S, ret |-> <<>>, lv |-> none,
             builtin |-> TRUE]
       ELSE LET lv == handle_import_level(I, name, level)
            IN IF lv.err # NoErr
               THEN [im |-> I, sys |-> S, ret |-> <<>>, lv |-> lv, builtin |-> FALSE]
               ELSE LET pair(mn, pkg) == [mn |-> mn, pkg |-> pkg]
                        parent_name == SubSeq(name, 1, Len(name) - 1)
                        combos == <<pair(lv.mod_name, lv.package),
                                    pair(parent_of(lv.mod_name), lv.package),
                                    pair(join_package(lv.package, name), <<>>),
                                    pair(join_package(lv.package, parent_name), <<>>)>>
                        r == try_combos(I, S, combos)
                    IN [im |-> r.im, sys |-> r.sys,
                        ret |-> IF r.ok /\ in_mod_dir(FileOfModule(r.sys, r.mod))
                                THEN r.mod ELSE <<>>,
                        lv |-> lv, builtin |-> FALSE]

(***************************************************************************)
(* SpecImport: handle_import calls of one visitor, hooks installed. The    *)
(* package root holds the packages p and p.q and the modules p.x, p.q.x,   *)
(* p.q.r and x; the host also finds ext, outside the root.                 *)
(***************************************************************************)
MaxImports == 2     \* handle_import calls of a run
MaxLevel == 4       \* the level of an import

HostPackages == {<<"p">>, <<"p", "q">>}
HostModules ==
    HostPackages \cup {<<"p", "x">>, <<"p", "q", "x">>, <<"p", "q", "r">>, <<"x">>, <<"ext">>}
\* the modules that issue the imports
CurrentModules == {<<"p">>, <<"p", "q">>, <<"p", "q", "r">>, <<"x">>}
ImportNames == {<<"x">>, <<"q", "x">>, <<"y">>, <<"ext">>, <<"sys">>}

ImportHost ==
    [path_hooks |-> <<LoaderHook>> \o HostSys.path_hooks, path |-> HostSys.path,
     path_importer_cache |-> {}, modules |-> {}, found |-> HostModules,
     packages |-> HostPackages, outside |-> {<<"ext">>}]

InitImport ==
    /\ InitStoreIdle /\ pc = "import" /\ InitMro /\ InitCg
    /\ rank = NoRank /\ snap = NoSnap /\ InitAst /\ InitMods
    /\ sys = ImportHost
    /\ \E cur \in CurrentModules :
           im = set_current_mod(
                    set_filepath(create_node([NewImportManager EXCEPT
                                                  !.mod_dir = [abs |-> TRUE,
                                                               path |-> <<"work", MOD_DIR>>]],
                                             cur),
                                 cur, FileOfModule(ImportHost, cur)),
                    cur, FileOfModule(ImportHost, cur))
    /\ run = [NoRun EXCEPT !.ev = [kind |-> "import", count |-> 0]]

\* self.import_manager.handle_import(src_name, level) of visit_Import
HandleImport(name, level) ==
    /\ pc = "import" /\ run.ev.count < MaxImports
    /\ \E r \in {handle_import(im, sys, name, level)} :
           /\ im' = r.im /\ sys' = r.sys
           /\ last' = [op |-> "handle_import", ret |-> r.ret]
           /\ run' = [run EXCEPT !.ev = [kind |-> "import", count |-> run.ev.count + 1,
                                         name |-> name, level |-> level, lv |-> r.lv,
                                         builtin |-> r.builtin,
                                         before |-> im.import_graph]]
    /\ UNCHANGED <<defs, order, err, closured, pc, mroVars, cgVars, rank, snap, astVars,
                   modVars>>

NextImport == \E name \in ImportNames, level \in 0..MaxLevel : HandleImport(name, level)

SpecImport == InitImport /\ [][NextImport]_vars

(***************************************************************************)
(* pointers.py: the positional maps of a NamePointer                       *)
(***************************************************************************)
INT_LIT == <<"INTEGER">>
ARG_UNK_LIT == <<"UNKNOWN">>

\* NamePointer.add_lit_arg(name, item): the kind of the item picks the literal
AddLitArg(np, name, kind) ==
    AddArg(np, name, {IF kind = "str" THEN STR_LIT
                      ELSE IF kind = "int" THEN INT_LIT ELSE ARG_UNK_LIT})

\* NamePointer.add_pos_lit_arg(pos, name, item); name = "" stands for None.
\* Unlike add_pos_arg, a missing name is always str(pos)
AddPosLitArg(np, pos, name, kind) ==
    LET nm == IF name # "" THEN name ELSE StrOfPos(pos)
        np1 == [np EXCEPT !.pos_to_name = Put(np.pos_to_name, pos, nm),
                          !.name_to_pos = Put(np.name_to_pos, nm, pos)]
    IN AddLitArg(np1, nm, kind)

\* Two name pointers, p and q, driven through the four operations
MaxPtrOps == 3
PtrPositions == {0, 1}
PtrArgNames == {"", "x", "y"}
PtrItems == {<<"a", "f">>, <<"a", "g">>}
PtrLitKinds == {"str", "int", "other"}
PtrIds == {"p", "q"}

InitPtr ==
    /\ InitStoreIdle /\ pc = "ptr" /\ InitMro /\ InitCg
    /\ rank = NoRank /\ snap = NoSnap /\ InitAst /\ InitMods
    /\ im = NewImportManager /\ sys = HostSys
    /\ run = [NoRun EXCEPT !.ev = [kind |-> "ptr", count |-> 0, op |-> "init",
                                   ptr |-> [i \in PtrIds |-> NewNamePointer]]]

PtrApply(i, op, np) ==
    /\ run' = [run EXCEPT !.ev = [kind |-> "ptr", count |-> run.ev.count + 1, op |-> op,
                                  ptr |-> [run.ev.ptr EXCEPT ![i] = np]]]
    /\ UNCHANGED <<defs, order, err, last, closured, pc, mroVars, cgVars, rank, snap,
                   astVars, im, sys, modVars>>

PtrAddPosArg(i, pos, name, item) ==
    /\ pc = "ptr" /\ run.ev.count < MaxPtrOps
    /\ PtrApply(i, "add_pos_arg", AddPosArg(run.ev.ptr[i], pos, name, {item}))

PtrAddPosLitArg(i, pos, name, kind) ==
    /\ pc = "ptr" /\ run.ev.count < MaxPtrOps
    /\ PtrApply(i, "add_pos_lit_arg", AddPosLitArg(run.ev.ptr[i], pos, name, kind))

PtrAddArg(i, name, item) ==
    /\ pc = "ptr" /\ run.ev.count < MaxPtrOps /\ name # ""
    /\ PtrApply(i, "add_arg", AddArg(run.ev.ptr[i], name, {item}))

PtrMerge(i, j) ==
    /\ pc = "ptr" /\ run.ev.count < MaxPtrOps /\ i # j
    /\ PtrApply(i, "merge", NamePointerMerge(run.ev.ptr[i], run.ev.ptr[j]))

NextPtr ==
    \/ \E i \in PtrIds, pos \in PtrPositions, name \in PtrArgNames, item \in PtrItems :
           PtrAddPosArg(i, pos, name, item)
    \/ \E i \in PtrIds, pos \in PtrPositions, name \in PtrArgNames, kind \in PtrLitKinds :
           PtrAddPosLitArg(i, pos, name, kind)
    \/ \E i \in PtrIds, name \in PtrArgNames, item \in PtrItems : PtrAddArg(i, name, item)
    \/ \E i, j \in PtrIds : PtrMerge(i, j)

SpecPtr == InitPtr /\ [][NextPtr]_vars

(***************************************************************************)
(* Properties                                                              *)
(***************************************************************************)
\* ns's name pointer is empty or holds ns itself
EmptyOrSelf(D, ns) ==
    D[ns].name_pointer.values = {} \/ ns \in D[ns].name_pointer.values

\* every element of every name pointer is a definition of the store
NoDangling(D) == \A ns \in DOMAIN D : D[ns].name_pointer.values \subseteq DOMAIN D

\* C1: in the mapping transitive_closure() returns, closured[ns] contains ns
\* exactly when ns's name pointer is empty or points to ns itself, and for every
\* other ns closured[ns] is the union of closured[t] over the targets t of ns's
\* name pointer, cycles included. Stated here for the stores all of whose
\* targets are definitions of the store.
C1_ClosureIsUnionOfTargets ==
    (pc = "closed" /\ NoDangling(defs)) =>
        \A ns \in DOMAIN defs :
            /\ (ns \in closured[ns]) <=> EmptyOrSelf(defs, ns)
            /\ ~EmptyOrSelf(defs, ns) =>
                   closured[ns] = UNION {closured[t] : t \in defs[ns].name_pointer.values}

\* the argument sets of D2 hold nothing that those of D1 lack
ArgsWithin(D2, D1, ns) ==
    \A k \in DOMAIN D2[ns].name_pointer.args :
        /\ k \in DOMAIN D1[ns].name_pointer.args
        /\ D2[ns].name_pointer.args[k] \subseteq D1[ns].name_pointer.args[k]

\* going from store D1 to store D2 added no element and no argument key
NothingAdded(D1, D2) ==
    \A ns \in DOMAIN D2 :
        /\ ns \in DOMAIN D1
        /\ D2[ns].name_pointer.values \subseteq D1[ns].name_pointer.values
        /\ ArgsWithin(D2, D1, ns)

\* C2: complete_definitions is idempotent: a second call that immediately
\* follows a first one adds no element to any name pointer and no element or
\* key to any argument set.
C2_SecondCallAddsNothing == pc = "cd2" => NothingAdded(snap.defs, defs)

\* C3: in every reachable state of the store every definition of type FUN has
\* a companion definition at <its namespace>.<return>.
C3_FunHasReturn ==
    \A ns \in DOMAIN defs :
        is_function_def(defs[ns]) => join_ns(ns, RETURN_NAME) \in DOMAIN defs

\* C4: after compute_mro has run on class C (alone, or closing visit_ClassDef),
\* C.mro[0] is C's own namespace, whatever add_parent calls came before.
C4_MroStartsWithClass ==
    (last.op \in {"compute_mro", "visit_ClassDef"} /\ ~exited) =>
        mro[last.ret][1] = last.ret

NoDuplicates(l) == \A i, j \in 1..Len(l) : l[i] = l[j] => i = j

\* C5: no MRO list holds a namespace twice after an add_parent call or a
\* compute_mro call has returned, whatever operations preceded it.
C5_MroHasNoDuplicates == ~exited => \A c \in DOMAIN mro : NoDuplicates(mro[c])

\* add_parent has moved the class's own namespace behind a parent
C5_Witness ==
    /\ last.op = "add_parent" /\ ~exited
    /\ last.ret = ClsA /\ mro[ClsA] = <<ClsB, <<"ext", "X">>, ClsA>>

\* C6: after any sequence of add_node and add_edge calls both ends of every
\* edge of cg are keys of cg, and cg, cg_extended and modnames have the same
\* key set.
C6_GraphClosed ==
    /\ \A src \in DOMAIN cg : \A dst \in cg[src] : dst \in DOMAIN cg
    /\ DOMAIN cg = DOMAIN cg_extended
    /\ DOMAIN cg = DOMAIN modnames

\* add_edge has recorded an edge to a node that no add_node call named
C6_Witness ==
    /\ last.op = "add_edge" /\ err = NoErr
    /\ NodeY \in cg[NodeX] /\ cg[NodeY] = {} /\ modnames[NodeY] = <<>>

\* no name pointer and no argument set of D refers to another module
Independent(D) ==
    \A ns \in DOMAIN D :
        /\ D[ns].name_pointer.values \subseteq ModuleOf(ns)
        /\ \A k \in DOMAIN D[ns].name_pointer.args :
               D[ns].name_pointer.args[k] \subseteq ModuleOf(ns)

\* the stores D1 and D2 hold the same points-to and argument sets
SameSets(D1, D2) ==
    /\ DOMAIN D1 = DOMAIN D2
    /\ \A ns \in DOMAIN D1 :
           /\ D1[ns].name_pointer.values = D2[ns].name_pointer.values
           /\ D1[ns].name_pointer.args = D2[ns].name_pointer.args

\* C7: the result does not depend on the order in which independent modules
\* were inserted: complete_definitions leaves the same points-to and argument
\* sets whichever module's definitions come first in the store.
C7_ModuleOrderIndependent ==
    (pc = "cd1" /\ Independent(snap.defs)) =>
        \A O2 \in ModuleOrders :
            SameSets(defs, complete_definitions(snap.defs, O2, rank))

\* going from store D1 to store D2 removed no definition and no element
NothingRemoved(D1, D2) ==
    \A ns \in DOMAIN D1 :
        /\ ns \in DOMAIN D2
        /\ D1[ns].name_pointer.values \subseteq D2[ns].name_pointer.values
        /\ D1[ns].literal_pointer \subseteq D2[ns].literal_pointer
        /\ ArgsWithin(D1, D2, ns)

\* C9: points-to state only grows: no step removes a definition from the
\* store or an element from a name pointer, a literal pointer or an argument
\* set.
C9_OnlyGrows == [][NothingRemoved(defs, defs')]_vars

\* C10: the def_type of a namespace is immutable: a definition of type T at ns
\* is still there, with type T, after every store operation.
C10_DefTypeImmutable ==
    [][\A ns \in DOMAIN defs :
           ns \in DOMAIN defs' /\ defs'[ns].def_type = defs[ns].def_type]_vars

\* the module "def f(): g()" / "def g(): pass"
Scenario == [mod |-> <<>>, f |-> <<"g">>, g |-> <<>>]

\* the functions of module a that the calls of a body resolve to
Callees(body) == {join_ns(ModA, body[i]) : i \in {j \in 1..Len(body) : body[j] \in {"f", "g"}}}

\* C8 (as the emitter behaves): the emitted call graph has the module and its
\* two functions as nodes, and a node has an edge to a function exactly when
\* its own code calls that function; for the module of the scenario the
\* graph is {a: {}, a.f: {a.g}, a.g: {}}: defining a function gives the module
\* node no edge to it.
C8_EmittedGraph ==
    pc = "done" =>
        /\ DOMAIN cg = {ModA, join_ns(ModA, "f"), join_ns(ModA, "g")}
        /\ cg[ModA] = Callees(prog.mod)
        /\ cg[join_ns(ModA, "f")] = Callees(prog.f)
        /\ cg[join_ns(ModA, "g")] = Callees(prog.g)

\* the scenario's module has been emitted, with f's call of g as its only edge
C8_Witness ==
    /\ pc = "done" /\ prog = Scenario
    /\ cg[ModA] = {} /\ cg[join_ns(ModA, "f")] = {join_ns(ModA, "g")}
    /\ cg[join_ns(ModA, "g")] = {}

\* C8 as stated: for the scenario the emitted call graph is
\* {a: {a.f, a.g}, a.f: {a.g}, a.g: {}}, the module node having an edge to
\* each function it defines.
C8_ModuleHasEdgesToItsFunctions ==
    (pc = "done" /\ prog = Scenario) =>
        /\ DOMAIN cg = {ModA, join_ns(ModA, "f"), join_ns(ModA, "g")}
        /\ cg[ModA] = {join_ns(ModA, "f"), join_ns(ModA, "g")}
        /\ cg[join_ns(ModA, "f")] = {join_ns(ModA, "g")}
        /\ cg[join_ns(ModA, "g")] = {}

\* the definition at ns has nothing in its pointers
EmptyPointers(d) ==
    /\ d.name_pointer.values = {} /\ d.literal_pointer = {}
    /\ d.name_pointer.args = EmptyMap
    /\ d.name_pointer.pos_to_name = EmptyMap /\ d.name_pointer.name_to_pos = EmptyMap

\* the cases in which create(ns, type) has to fail
CreateMustFail(a, t) ==
    \/ ~a.isStr \/ a.ns = <<>>
    \/ t \notin {FUN_DEF, MOD_DEF, NAME_DEF, CLS_DEF, EXT_DEF}
    \/ a.ns \in DOMAIN defs

\* C11: create(ns, type) raises DefinitionError when ns is empty or not a
\* string, when type is not one of FUN, MOD, NAME, CLS, EXT, or when ns is
\* already defined, and then leaves the store as it was; otherwise it adds
\* exactly one definition, of that type and with empty pointers, at ns.
C11_CreateContract ==
    [][\A a \in CreateArgs, t \in CreateTypes :
           Create(a, t) =>
               IF CreateMustFail(a, t)
               THEN err' = DefinitionError /\ defs' = defs /\ order' = order
               ELSE /\ err' = NoErr
                    /\ DOMAIN defs' = DOMAIN defs \cup {a.ns}
                    /\ \A ns \in DOMAIN defs : defs'[ns] = defs[ns]
                    /\ defs'[a.ns].fullns = a.ns /\ defs'[a.ns].def_type = t
                    /\ EmptyPointers(defs'[a.ns])
                    /\ order' = Append(order, a.ns)]_vars

\* a create has been refused on a store that already holds definitions
C11_Witness ==
    /\ last.op = "create" /\ err = DefinitionError
    /\ ModA \in DOMAIN defs /\ join_ns(ModA, "f") \in DOMAIN defs

\* the modules of the package that the entry point reaches through the
\* import statements of the modules that parse
RECURSIVE ReachFrom(_, _)
ReachFrom(src, seen) ==
    LET more == {m \in Mods \ seen :
                    /\ src[m].inpkg
                    /\ \E q \in seen : src[q].kind # "syntax" /\ m \in src[q].imports}
    IN IF more = {} THEN seen ELSE ReachFrom(src, seen \cup more)

\* C12: a syntax error is contained: when no module raises anything but the
\* SyntaxError of ast.parse, no pass aborts, a module that does not parse
\* contributes nothing from its body, and a pass that has finished has
\* analysed every module of the package that the entry point reaches and
\* visited the body of each of them that parses.
C12_SyntaxErrorContained ==
    (\A m \in Mods : run.src[m].kind # "raise") =>
        /\ run.status # "raised"
        /\ \A p \in DOMAIN run.visited : \A m \in run.visited[p] : run.src[m].kind = "ok"
        /\ run.status = "done" =>
               /\ run.analyzed = ReachFrom(run.src, {ModP})
               /\ run.visited[run.pass] =
                      {m \in ReachFrom(run.src, {ModP}) : run.src[m].kind = "ok"}

\* the emitter pass is over: s does not parse, and t, imported by p after s
\* and by s itself, has been visited all the same
C12_Witness ==
    /\ pc = "pass" /\ run.status = "done" /\ run.pass = "cg"
    /\ run.src[ModS].kind = "syntax" /\ run.src[ModP].imports = {ModS, ModT}
    /\ run.src[ModT].inpkg
    /\ run.visited["cg"] = {ModP, ModT} /\ run.analyzed = Mods

\* C13: whenever analyze_submodule finishes, by its normal return, by an
\* early return or because the analysis of the submodule raised, the import
\* manager's current module and input file are those of the calling module.
C13_CurrentModuleRestored ==
    run.ev.kind \in {"return", "skip", "raise"} =>
        im.current_module = run.ev.caller /\ im.input_file = run.ev.file

\* the custom loader is the first path hook and the package root the first
\* entry of the search path
HookInstalled ==
    /\ Head(sys.path_hooks) = LoaderHook
    /\ Head(sys.path) = abspath(im.mod_dir)

\* the path hooks and the search path are what they were before the install
HostRestored == <<sys.path_hooks, sys.path>> = run.ev.before

\* C14 (as the code behaves): install_hooks and remove_hooks are inverse as
\* long as installs do not nest: when each install_hooks is closed by
\* remove_hooks before the next one begins, the path hooks and the search
\* path are, after each remove_hooks, what they were before the install, and
\* while the hook is installed the custom loader is the first path hook and
\* the package root the first search-path entry.
C14_HooksInverseUnnested ==
    ~run.ev.nested =>
        /\ (last.op = "remove_hooks" /\ run.ev.depth = 0) => HostRestored
        /\ run.ev.depth >= 1 => HookInstalled

\* a second, unnested install has been closed after modules were imported
C14_Witness ==
    /\ pc = "hooks" /\ last.op = "remove_hooks" /\ ~run.ev.nested
    /\ DOMAIN im.import_graph = {ModP, ModS} /\ im.old_path_hooks = <<"zipimporter", "FileFinder">>
    /\ Len(sys.path) = 2 /\ sys.modules = {ModT}

\* C14 as stated: for every sequence in which each remove_hooks closes an
\* earlier install_hooks, nested ones included, once every install is closed
\* the path hooks and the search path are what they were before the first
\* install_hooks.
C14_HooksInverse ==
    /\ (last.op = "remove_hooks" /\ run.ev.depth = 0) => HostRestored
    /\ run.ev.depth >= 1 => HookInstalled

\* the call the emitter is about to visit resolves to no callee name
UnresolvedCall ==
    /\ pc = "call_emit" /\ Head(todo).kind = "Call"
    /\ call_names(TheEmitter, scopes, closured, mro, Head(todo).ns, Head(todo).func,
                  rank).names = {}

FailSafeCallees(func, current_ns) ==
    LET base == get_def(scopes, current_ns, func.id)
        ext == IF func.t = "Attribute" /\ base # <<>> /\ base \in DOMAIN closured
               THEN {n \in closured[base] : n \in DOMAIN defs /\ defs[n].def_type = EXT_DEF}
               ELSE {}
    IN IF func.t = "Name"
       THEN IF func.id \in Builtins THEN {<<BUILTIN_NAME, func.id>>} ELSE {}
       ELSE IF ext # {} THEN {join_ns(n, func.attr) : n \in closured[base]}
       ELSE IF func.id = "self" THEN {}
       ELSE {<<func.id, func.attr>>}

RaiseOfCall ==
    /\ pc = "call_emit" /\ Head(todo).kind = "Raise" /\ Head(todo).called
    /\ Head(todo).func.t = "Name" /\ Head(todo).ns \in DOMAIN cg

\* E.__init__ resolved through the MRO of class cls: the __init__ of the first
\* class of the MRO that has a definition for it, or else the __init__ of its
\* external ancestors
InitThroughMro(cls) ==
    LET l == mro[cls]
        own == {i \in 1..Len(l) : join_ns(l[i], CLS_INIT) \in DOMAIN defs}
        first == CHOOSE i \in own : \A j \in own : i <= j
    IN IF own # {} THEN {join_ns(l[first], CLS_INIT)}
       ELSE {join_ns(l[i], CLS_INIT) : i \in {j \in 1..Len(l) : l[j] \in DOMAIN defs
                                                 /\ defs[l[j]].def_type = EXT_DEF}}

\* what raise id(...) met in current_ns is to be linked to
RaiseCallees(id, current_ns) ==
    LET names == retrieve_call_names(scopes, closured, current_ns, id)
    IN UNION {IF n \notin DOMAIN defs THEN {}
              ELSE IF defs[n].def_type = CLS_DEF THEN InitThroughMro(n)
              ELSE IF defs[n].def_type = EXT_DEF THEN {n}
              ELSE {} : n \in names}

\* C16: for raise E(...) inside a function F whose node is in the call graph
\* the emitter records E in F's raises set and adds an edge from F to
\* E.__init__, resolved through the MRO, when E is a class, or to E when E is
\* an external definition
C16_RaiseRecordedAndLinked ==
    [][RaiseOfCall =>
          LET F == Head(todo).ns
              id == Head(todo).func.id
          IN /\ F \in DOMAIN raises' /\ id \in raises'[F]
             /\ RaiseCallees(id, F) \subseteq cg'[F]]_vars

\* the first half of C16 alone, which the emitter keeps: E is recorded in F's
\* raises set
RaiseRecorded ==
    [][RaiseOfCall => Head(todo).ns \in DOMAIN raises'
                          /\ Head(todo).func.id \in raises'[Head(todo).ns]]_vars

\* the callees of type EXT the call the emitter is about to visit resolves to
ExtCallees ==
    IF pc = "call_emit" /\ Head(todo).kind = "Call"
    THEN LET r == call_names(TheEmitter, scopes, closured, mro, Head(todo).ns,
                             Head(todo).func, rank)
         IN {p \in r.names : p \in DOMAIN r.E.defs /\ r.E.defs[p].def_type = EXT_DEF}
    ELSE {}

\* the edge src -> p is recorded with the first segment of p as its
\* external-module field
ExtEdge(G, X, src, p) ==
    /\ src \in DOMAIN G /\ p \in G[src]
    /\ \E i \in 1..Len(X[src].dsts) :
           X[src].dsts[i].dst = p /\ X[src].dsts[i].ext_mod = <<p[1]>>

\* every record of table T is in table T2 with its name, its file name and
\* the methods it listed
RecordsKept(T, T2) ==
    \A k \in DOMAIN T :
        /\ k \in DOMAIN T2
        /\ T2[k].name = T[k].name /\ T2[k].filename = T[k].filename
        /\ \A meth \in DOMAIN T[k].methods :
               meth \in DOMAIN T2[k].methods /\ T2[k].methods[meth] = T[k].methods[meth]

\* C17: for every resolved callee of type EXT the emitter adds an edge from the
\* current method to the callee whose external-module field is the first
\* segment of the callee's namespace, and the module table holds an external
\* module record for that segment that lists the callee; a record that exists
\* already is reused, not replaced
C17_ExtCalleeEdgeAndModule ==
    [][\A p \in ExtCallees :
           /\ ExtEdge(cg', cg_extended', Head(todo).ns, p)
           /\ <<p[1]>> \in DOMAIN mm'.external
           /\ p \in DOMAIN mm'.external[<<p[1]>>].methods
           /\ RecordsKept(mm.external, mm'.external)]_vars

\* what the emitter keeps of it: the record that lists the callee is the module
\* record the table has for the first segment, internal modules looked up
\* first; an external record is made only when the table has none under that
\* name, and every record that exists is kept with what it lists
ExtCalleeEdgeAndRecord ==
    [][\A p \in ExtCallees :
           LET root == <<p[1]>>
           IN /\ ExtEdge(cg', cg_extended', Head(todo).ns, p)
              /\ IF root \in DOMAIN mm.internal
                 THEN p \in DOMAIN mm'.internal[root].methods
                 ELSE root \in DOMAIN mm'.external
                          /\ p \in DOMAIN mm'.external[root].methods
              /\ RecordsKept(mm.external, mm'.external)
              /\ RecordsKept(mm.internal, mm'.internal)
              /\ DOMAIN mm'.internal = DOMAIN mm.internal]_vars

\* f called ext.y() and then X(): the record of ext that the first call made
\* lists the callee of the second as well
ExtRecordReused ==
    /\ pc = "call_done"
    /\ prog.body = <<CallStmt(AttributeNode("ext", "y")), CallStmt(NameNode("X"))>>
    /\ ExtMod \in DOMAIN mm.external
    /\ {join_ns(ExtMod, "y"), ExtX} \subseteq DOMAIN mm.external[ExtMod].methods
    /\ ExtEdge(cg, cg_extended, FnF, ExtX)

\* the three passes are over
NamesDone == pc = "names" /\ run.ev.kind = "names" /\ run.ev.pass = "cg" /\ todo = <<>>

\* C18: the three passes agree on synthetic names: no anonymous object of the
\* module is given one name at a visit and another name at another visit, of
\* the same pass or of another
C18_PassesAgreeOnNames ==
    NamesDone =>
        \A i \in 1..Len(prog) : \A p, q \in {"pre", "post", "cg"} :
            \A n \in run.ev.names[p][i], m \in run.ev.names[q][i] : n = m

\* the same for modules whose anonymous objects are values of assignments or
\* arguments of calls of a name that resolves to one function
NamesAgreeOnPlainBodies ==
    (NamesDone /\ \A i \in 1..Len(prog) :
                     prog[i].t = "Assign" \/ (prog[i].t = "Call" /\ prog[i].defined
                                                 /\ prog[i].callees = 1)) =>
        \A i \in 1..Len(prog) : \E n \in run.ev.names["pre"][i] :
            \A p \in {"pre", "post", "cg"} : run.ev.names[p][i] = {n}


\* the post pass of SpecInherit has visited the whole module
InheritDone == pc = "inherit_done"

\* the classes of SpecInherit the module calls
Instantiated == {join_ns(ModA, prog[i]) : i \in 1..Len(prog)}

\* the names class c declares in its body
DeclaredKeys(c) == DOMAIN scopes[c].defs

\* the classes of the MRO of c
MroSet(c) == {mro[c][i] : i \in 1..Len(mro[c])}

\* the definitions of key in the first class of the MRO of parent that
\* declares it: what find_cls_fun_ns(parent, key) resolves to
InheritedDefs(parent, key) ==
    LET declaring == {i \in 1..Len(mro[parent]) : key \in DeclaredKeys(mro[parent][i])}
    IN IF declaring = {} THEN {}
       ELSE {join_ns(mro[parent][CHOOSE i \in declaring : \A j \in declaring : i <= j], key)}

\* the instantiated classes that have parent in their MRO and declare key
Overriders(parent, key) ==
    {c \in Instantiated : parent \in MroSet(c) /\ key \in DeclaredKeys(c)}

ClosureReturned == pc = "dfs_closed"

\* run statement by statement, transitive_closure returns the mapping that
\* the operator transitive_closure computes
ClosureStepsAgree == ClosureReturned => closured = transitive_closure(defs, order, rank)

\* the store of SpecDfs has a cycle of two definitions or a self-loop
CyclicStore ==
    \/ \E n \in TcNames : n \in defs[n].name_pointer.values
    \/ \E n1, n2 \in TcNames :
           /\ n1 # n2
           /\ n2 \in defs[n1].name_pointer.values /\ n1 \in defs[n2].name_pointer.values

\* C20: on every store of the family, the stores with cycles and self-loops
\* of name pointers among them, transitive_closure returns, and the body of
\* dfs runs at most once for each definition.
C20_TerminatesOncePerDefinition ==
    /\ [](\A n \in TcNames : run.bodies[n] <= 1)
    /\ <>ClosureReturned

\* transitive_closure has returned on a store where a.m and b.m point to each
\* other and c points to itself, after one run of the body of dfs for each
C20_Witness ==
    /\ ClosureReturned
    /\ DefB \in defs[DefA].name_pointer.values /\ DefA \in defs[DefB].name_pointer.values
    /\ DefC \in defs[DefC].name_pointer.values
    /\ \A n \in TcNames : run.bodies[n] = 1


\* the names a store mentions in name pointers and argument sets
Mentioned(D) ==
    UNION {D[n].name_pointer.values : n \in DOMAIN D}
        \cup UNION {UNION {D[n].name_pointer.args[x] : x \in DOMAIN D[n].name_pointer.args} :
                        n \in DOMAIN D}

\* C21: complete_definitions returns without raising, leaves the set of
\* definitions as it was, and adds to the values of a name pointer only
\* namespaces that are keys of the store, whatever names and literal tags
\* that are no keys of the store its name pointers and argument sets mention.
C21_SolverIgnoresUnknownNames ==
    pc = "cdu_done" =>
        /\ err = NoErr
        /\ DOMAIN defs = DOMAIN snap.defs
        /\ \A n \in DOMAIN defs :
               /\ defs[n].fullns = snap.defs[n].fullns
               /\ defs[n].def_type = snap.defs[n].def_type
               /\ defs[n].name_pointer.values \ snap.defs[n].name_pointer.values
                      \subseteq DOMAIN snap.defs

\* the solver has added to the values of b while a points to a missing
\* namespace and the argument set of a holds a literal tag, which it left out
C21_Witness ==
    /\ pc = "cdu_done"
    /\ "x" \in DOMAIN snap.defs[DefA].name_pointer.args
    /\ STR_LIT \in snap.defs[DefA].name_pointer.args["x"]
    /\ Missing \in snap.defs[DefA].name_pointer.values
    /\ defs[DefB].name_pointer.values # snap.defs[DefB].name_pointer.values
    /\ Mentioned(defs) \ DOMAIN defs # {}


\* a handle_import call of a relative import has just returned
RelativeImportDone == run.ev.count >= 1 /\ run.ev.level >= 1

\* what C22 states of the call that has just returned
RelativeImportContract ==
    LET m == Len(im.current_module)
        level == run.ev.level
    IN IF level > m
       THEN /\ run.ev.lv.err = ImportError
            /\ last.ret = <<>>
            /\ im.import_graph = run.ev.before
       ELSE /\ run.ev.lv.err = NoErr
            /\ run.ev.lv.mod_name = [dots |-> level, name |-> run.ev.name]
            /\ run.ev.lv.package =
                   SubSeq(im.current_module, 1,
                          IF is_init_file(im) THEN m - (level - 1) ELSE m - level)

\* C22, as the specification states it: a relative import (name, level) from
\* a module of m components raises the import error, returns None and leaves
\* the import graph alone when level > m; otherwise the relative name is
\* level dots and name, and the package the first m - level components, or
\* the first m - (level - 1) in a package initializer.
C22_RelativeImportLevels == RelativeImportDone => RelativeImportContract

\* C22, amended: the same for a name whose first component is no builtin
\* module name; for a builtin one handle_import adds the edge from the
\* current module to that component, resolves nothing and returns None,
\* whatever the level.
C22_RelativeImportLevelsNotBuiltin ==
    RelativeImportDone =>
        IF run.ev.name[1] \in BuiltinModules
        THEN /\ run.ev.builtin /\ last.ret = <<>>
             /\ im.import_graph =
                    [run.ev.before EXCEPT ![im.current_module].imports =
                                              @ \cup {<<run.ev.name[1]>>}]
        ELSE RelativeImportContract

\* from the initializer of p.q, a level-2 import of x has taken p as its
\* package, and a level-3 import has been refused
C22_Witness ==
    /\ run.ev.count = 2 /\ im.current_module = <<"p", "q">> /\ is_init_file(im)
    /\ run.ev.level = 3 /\ run.ev.lv.err = ImportError /\ last.ret = <<>>
    /\ <<"p">> \in im.import_graph[im.current_module].imports

\* what handle_import returned and the edges of the current module, for the
\* calls that were replayed on the code
ImportReplays ==
    run.ev.count = 1 =>
        LET edges == im.import_graph[im.current_module].imports
            call(cur, name, level) ==
                im.current_module = cur /\ run.ev.name = name /\ run.ev.level = level
        IN /\ call(<<"p", "q">>, <<"x">>, 1) =>
                  last.ret = <<"p", "q", "x">>
                      /\ edges = {<<"p">>, <<"p", "q">>, <<"p", "q", "x">>}
           /\ call(<<"p", "q">>, <<"x">>, 2) => last.ret = <<"p">> /\ edges = {<<"p">>}
           /\ call(<<"p">>, <<"x">>, 1) =>
                  last.ret = <<"p", "x">> /\ edges = {<<"p">>, <<"p", "x">>}
           /\ call(<<"p">>, <<"y">>, 1) => last.ret = <<>> /\ edges = {<<"p">>}
           /\ call(<<"p", "q", "r">>, <<"x">>, 2) => last.ret = <<"p">> /\ edges = {<<"p">>}
           /\ call(<<"p", "q", "r">>, <<"x">>, 3) => last.ret = <<>> /\ edges = {}
           /\ call(<<"p", "q", "r">>, <<"q", "x">>, 2) =>
                  last.ret = <<"p", "q", "x">>
                      /\ edges = {<<"p">>, <<"p", "q">>, <<"p", "q", "x">>}
           /\ call(<<"p", "q", "r">>, <<"sys">>, 4) => last.ret = <<>> /\ edges = {<<"sys">>}
           /\ call(<<"x">>, <<"x">>, 1) => last.ret = <<>> /\ edges = {}

\* name_to_pos is the inverse of pos_to_name in one name pointer
InverseMaps(np) ==
    /\ \A p \in DOMAIN np.pos_to_name :
           /\ np.pos_to_name[p] \in DOMAIN np.name_to_pos
           /\ np.name_to_pos[np.pos_to_name[p]] = p
    /\ \A n \in DOMAIN np.name_to_pos :
           /\ np.name_to_pos[n] \in DOMAIN np.pos_to_name
           /\ np.pos_to_name[np.name_to_pos[n]] = n

\* C23: in every name pointer reachable through add_pos_arg, add_pos_lit_arg,
\* add_arg and merge, pos_to_name[p] = n holds exactly when name_to_pos[n] = p
C23_PositionalMapsInverse ==
    run.ev.kind = "ptr" => \A i \in PtrIds : InverseMaps(run.ev.ptr[i])

\* after one operation that is not a merge the maps of both pointers are inverse
PtrOnlyFreshAdds ==
    run.ev.kind = "ptr" /\ run.ev.count <= 1 /\ run.ev.op # "merge"
        => \A i \in PtrIds : InverseMaps(run.ev.ptr[i])


\* the arguments of the handle_function_def call that led to this state
AfterHandleFunctionDef == last.op = "handle_function_def" /\ err = NoErr
SecondHandleFunctionDef ==
    ManagerHandleFunctionDef(defs, order, SubSeq(last.ret, 1, Len(last.ret) - 1),
                             last.ret[Len(last.ret)])

\* a second call with the same arguments returns the same definition and
\* leaves the store as it is
HandleFunctionDefRepeats ==
    AfterHandleFunctionDef => SecondHandleFunctionDef = Result(defs, order, NoErr, last.ret)

\* the companion NAME definition of the returned definition exists
HandleFunctionDefHasReturn ==
    AfterHandleFunctionDef =>
        /\ Has(defs, last.ret)
        /\ Has(defs, join_ns(last.ret, RETURN_NAME))

\* handle_function_def leaves every definition that existed before the call as it was
HandleFunctionDefPreserves ==
    [][\A name \in FnNames : HandleFunctionDef(ModA, name) =>
           \A ns \in DOMAIN defs : ns \in DOMAIN defs' /\ defs'[ns] = defs[ns]]_vars

\* C24: after handle_function_def(parent, name) the store holds a FUN definition
\* at parent.name whose decorator_names is a set and a NAME definition at
\* parent.name.<return>, and a second call with the same arguments returns the
\* same definition and changes nothing
C24_HandleFunctionDefIdempotent ==
    AfterHandleFunctionDef =>
        /\ Has(defs, last.ret)
        /\ defs[last.ret].def_type = FUN_DEF
        /\ defs[last.ret].has_decorator_names
        /\ Has(defs, join_ns(last.ret, RETURN_NAME))
        /\ defs[join_ns(last.ret, RETURN_NAME)].def_type = NAME_DEF
        /\ SecondHandleFunctionDef = Result(defs, order, NoErr, last.ret)

\* the same without a definition at parent.name before the call: the definition
\* the call created is a FUN definition with decorator_names set
HandleFunctionDefCreated ==
    [][\A name \in FnNames :
           HandleFunctionDef(ModA, name) /\ ~Has(defs, join_ns(ModA, name)) =>
               /\ defs'[join_ns(ModA, name)].def_type = FUN_DEF
               /\ defs'[join_ns(ModA, name)].has_decorator_names
               /\ defs'[join_ns(ModA, name)].decorator_names = {}]_vars


\* the distinct items of l in the order of their last occurrence
LastOccurrenceIdx(l) == {i \in 1..Len(l) : \A j \in (i + 1)..Len(l) : l[j] # l[i]}
LastOccurrences(l) ==
    LET idxs == LastOccurrenceIdx(l)
    IN [k \in 1..Cardinality(idxs) |->
            l[CHOOSE i \in idxs : Cardinality({j \in idxs : j < i}) = k - 1]]

\* C25: fix_mro and compute_mro are the same function, the distinct namespaces
\* of the list in the order of their last occurrence, so a compute_mro right
\* after an add_parent of the same class leaves its MRO as it is
C25_FixAndComputeMroAgree ==
    /\ \A c \in DOMAIN mro :
           /\ fix_mro(mro[c]) = LastOccurrences(mro[c])
           /\ compute_mro(mro[c]) = LastOccurrences(mro[c])
    /\ (last.op = "compute_mro" /\ last.prev = "add_parent" /\ last.prevret = last.ret
            /\ ~exited)
           => mro[last.ret] = last.arg

\* compute_mro has run on a list with a duplicate and removed it
C25_Witness ==
    /\ last.op = "compute_mro"
    /\ Len(last.arg) > Len(mro[last.ret])
    /\ Len(mro[last.ret]) >= 2
    /\ mro[last.ret] # SubSeq(last.arg, 1, Len(mro[last.ret]))
    /\ mro[last.ret] = fix_mro(last.arg)

\* compute_mro has run right after an add_parent that lengthened the list
ComputeAfterAddParent ==
    /\ last.op = "compute_mro" /\ last.prev = "add_parent" /\ last.prevret = last.ret
    /\ Len(last.arg) >= 3


\* the last operation was add_parent with a duplicate-free list on a class
\* whose own list was not empty
AddParentOfCleanList ==
    /\ last.op = "add_parent" /\ last.islist
    /\ NoDuplicates(last.parent)
    /\ last.arg # <<>>

\* C26: add_parent with a duplicate-free parent list on a non-empty MRO never
\* takes the branch that ends the process
C26_AbortUnreachable == AddParentOfCleanList => ~exited

\* add_parent has appended a list of two that starts like the class's own list
C26_Witness ==
    /\ AddParentOfCleanList /\ ~exited
    /\ Len(last.parent) >= 2
    /\ last.arg # last.parent
    /\ last.parent[1] = last.arg[1]
    /\ Len(mro[last.ret]) > Len(last.arg)

\* the branch is taken for some list with a duplicate
AbortNeverTaken == ~exited


\* the targets of ns that are definitions of the store
ExistingTargets(D, ns) == D[ns].name_pointer.values \cap DOMAIN D

\* C27: the mapping transitive_closure returns has the store's namespaces as its
\* keys, every element of every closure set is a namespace of the store, and a
\* closure set is empty only for a definition whose name pointer is non-empty
\* and names no definition of the store
C27_ClosureKeysAndElements ==
    pc = "closed" =>
        /\ DOMAIN closured = DOMAIN defs
        /\ \A ns \in DOMAIN closured :
               /\ closured[ns] \subseteq DOMAIN defs
               /\ closured[ns] = {} =>
                      /\ defs[ns].name_pointer.values # {}
                      /\ ExistingTargets(defs, ns) = {}

\* a closure with an empty set for a dangling pointer, next to a cycle whose
\* members have non-empty sets and a definition that points into the store
\* and outside it
C27_Witness ==
    /\ pc = "closed"
    /\ \E a, b, c \in DOMAIN defs :
           /\ a # b /\ b # c /\ a # c
           /\ defs[a].name_pointer.values = {Missing} /\ closured[a] = {}
           /\ defs[b].name_pointer.values = {b, Missing} /\ closured[b] = {b}
           /\ defs[c].name_pointer.values = {a, b} /\ closured[c] = {a, b}

\* the namespaces reachable from ns along name_pointer.values, ns included
RECURSIVE ReachableDefs(_, _, _)
ReachableDefs(D, frontier, seen) ==
    IF frontier \subseteq seen THEN seen
    ELSE ReachableDefs(D,
                       UNION {D[n].name_pointer.values \cap DOMAIN D : n \in frontier \ seen},
                       seen \cup frontier)

\* no definition is reachable from one of its own targets
AcyclicStore(D) ==
    \A ns \in DOMAIN D :
        ns \notin ReachableDefs(D, D[ns].name_pointer.values \cap DOMAIN D, {})

\* C28: on an acyclic store all of whose targets exist, the closure of ns is the
\* set of the definitions with an empty name pointer that are reachable from
\* ns, ns itself when its own pointer is empty; aliases on the way are left out
C28_ClosureIsReachableLeaves ==
    (pc = "closed" /\ NoDangling(defs) /\ AcyclicStore(defs)) =>
        \A ns \in DOMAIN defs :
            closured[ns] = {t \in ReachableDefs(defs, {ns}, {}) :
                                defs[t].name_pointer.values = {}}

\* a chain a -> {b, c}, b -> {c}, c -> {}: the closure of a is {c}, without b
C28_Witness ==
    /\ pc = "closed" /\ NoDangling(defs) /\ AcyclicStore(defs)
    /\ \E a, b, c \in DOMAIN defs :
           /\ defs[a].name_pointer.values = {b, c}
           /\ defs[b].name_pointer.values = {c}
           /\ defs[c].name_pointer.values = {}
           /\ closured[a] = {c} /\ closured[b] = {c} /\ closured[c] = {c}


\* the three passes are over: the last one returned, or an exception ended the run
PassesOver == run.status = "raised" \/ (run.status = "done" /\ run.pass = "cg")

\* C29: within one pass no module gets a second visitor, the stack of running
\* visitors is never deeper than the number of modules, and every pass ends
C29_EachModuleVisitedOnce ==
    /\ [](NoDuplicates(run.built) /\ Len(run.stack) <= Cardinality(Mods))
    /\ <>PassesOver

\* the last pass has ended on a package where p and s import each other and
\* both import t: each of the three modules got one visitor
C29_Witness ==
    /\ run.status = "done" /\ run.pass = "cg"
    /\ run.src[ModP].imports = {ModS, ModT}
    /\ run.src[ModS].imports = {ModP, ModT}
    /\ run.src[ModT].imports = {ModS}
    /\ Len(run.built) = 3
    /\ run.visited["cg"] = Mods


\* modnames and cg_extended record the same declaring module for every node
ModnamesAgree ==
    /\ DOMAIN modnames = DOMAIN cg_extended
    /\ \A n \in DOMAIN modnames : modnames[n] = cg_extended[n].meta.modname

\* a record of a node's declaring module that is not empty is never changed
ModnamesStable ==
    [][\A n \in DOMAIN modnames :
           /\ modnames[n] # <<>> => modnames'[n] = modnames[n]
           /\ cg_extended[n].meta.modname # <<>> =>
                  cg_extended'[n].meta.modname = cg_extended[n].meta.modname]_vars

\* C30: after any sequence of add_node and add_edge calls modnames[n] equals
\* cg_extended[n].meta.modname for every node n, and a record that is not
\* empty never changes
C30_ModnameRecordsAgree == []ModnamesAgree /\ ModnamesStable

====
